---- MODULE Spec2Model ----
(***************************************************************************)
(* Model of the OIDC authenticator (lib/index.js, bin/cli.js).             *)
(*                                                                         *)
(* The process runs one of two commands: the daemon (startDaemon), whose   *)
(* HTTP server serves /health, the initiation and the callback, or the     *)
(* one-shot flow (authenticate), whose callback server waits for a single  *)
(* authorization code.  Request handlers run to completion on the event    *)
(* loop except where they await an outbound call (token exchange, backend  *)
(* relay); each action below is one such run-to-completion step.           *)
(***************************************************************************)
EXTENDS Integers, Sequences, FiniteSets, TLC

\* ------------------------------------------------------------------ bounds
\* HTTP requests handled during one run of the process
MaxRequests == 3

\* ------------------------------------------------------------------ values
\* null / undefined: an absent query parameter, field or variable
Null == <<"null", 0>>
\* a state value that no initiation generated
Forged == <<"forged", 0>>
\* the n-th value drawn from crypto.randomBytes
Rand(n) == <<"rand", n>>
\* base64url(SHA-256(v))
Sha256(v) == <<"sha256", v[2]>>
\* an authorization code sent by the identity provider
Code1 == <<"code", 1>>
\* the bypass tokens of config.yaml
ConfAccessToken == <<"config_access", 0>>
ConfIdToken == <<"config_id", 0>>
\* query parameter values
ReturnTokens == <<"return-tokens", 0>>
AccessDenied == <<"access_denied", 0>>
\* no token set
NoTokens ==
    [access_token |-> Null, id_token |-> Null, token_type |-> "none", scope |-> "none"]

\* ----------------------------------------------------------- configuration
\* config.tokens: null, or accessToken / idToken each present or missing
TokenConfigs ==
    { [set |-> FALSE, accessToken |-> Null, idToken |-> Null],
      [set |-> TRUE, accessToken |-> ConfAccessToken, idToken |-> Null],
      [set |-> TRUE, accessToken |-> Null, idToken |-> ConfIdToken],
      [set |-> TRUE, accessToken |-> ConfAccessToken, idToken |-> ConfIdToken] }

\* main(): const hasTokenBypass = config.tokens && accessToken && idToken
hasTokenBypass(cfg) ==
    cfg.tokens.set /\ cfg.tokens.accessToken # Null /\ cfg.tokens.idToken # Null

\* the configuration main() builds (parseArgs): bypass tokens, whether a backend
\* URL, a backend secret, an issuer and a client id are configured.  A backend
\* comes with its secret (the README requires one for direct-send mode); the
\* incomplete bypass configurations, and the bypass configurations that name
\* no identity provider, are run without a backend.
Configs ==
    { c \in [tokens : TokenConfigs, backendUrl : BOOLEAN, backendSecret : BOOLEAN,
             issuer : BOOLEAN, clientId : BOOLEAN, enableLogging : BOOLEAN] :
        /\ c.backendSecret = c.backendUrl
        /\ (c.tokens.set /\ ~hasTokenBypass(c)) => ~c.backendUrl
        /\ hasTokenBypass(c) => c.issuer = c.clientId
        /\ (hasTokenBypass(c) /\ ~c.issuer) => ~c.backendUrl }

\* mutant of ConfigurationError: an incomplete bypass configuration is fatal too
ConfigurationErrorOnPartialBypass(cfg) ==
    \/ cfg.tokens.set /\ ~hasTokenBypass(cfg)
    \/ ~hasTokenBypass(cfg) /\ (~cfg.issuer \/ ~cfg.clientId)

\* main(): process.exit(1) when issuer or client id is missing and the bypass
\* tokens are not both configured
ConfigurationError(cfg) ==
    ~hasTokenBypass(cfg) /\ (~cfg.issuer \/ ~cfg.clientId)

Commands == {"daemon", "oneshot"}

VARIABLES
    command,      \* which entry point the CLI runs
    config,       \* the configuration main() passes to the constructor
    daemonPc,     \* position of startDaemon
    pendingAuth,  \* this.pendingAuth: <<>> (undefined) or <<session>>
    rand,         \* number of values drawn from crypto.randomBytes
    reqs,         \* the HTTP requests received, with handler position and response
    tokenCalls,   \* POSTs issued to the identity provider's token endpoint
    relayCalls,   \* POSTs issued to the backend
    warnings,     \* number of misconfiguration warnings getAuthTokens logged
    authn,        \* the one-shot authenticate() call
    elapsed,      \* wall clock: 3 minutes have passed since pendingAuth was stored
    cookies,      \* the browser sends Backstage cookies with its requests
    logFile,      \* what fs.appendFileSync wrote about tokens to config.logFile
    jwt,          \* a call of decodeJWT: its argument and what it returned
    proc,         \* a call of parseArgs: argv, environment, config.yaml and the result
    host          \* the machine: PID file, port, start commands and daemon processes

vars == <<command, config, daemonPc, pendingAuth, rand, reqs, tokenCalls,
          relayCalls, warnings, authn, elapsed, cookies, logFile, jwt, proc, host>>

\* ------------------------------------------------------------ bypass tokens
\* mutant of getAuthTokens: the configured tokens are never used
getAuthTokensIgnored(cfg) == NoTokens

\* mutant of getAuthTokens: an incomplete pair of tokens is used as it is
getAuthTokensAcceptsPartial(cfg) ==
    IF cfg.tokens.set
    THEN [access_token |-> cfg.tokens.accessToken,
          id_token |-> cfg.tokens.idToken,
          token_type |-> "Bearer",
          scope |-> "cluster-access"]
    ELSE NoTokens

\* getAuthTokens: the pre-configured token set, or NoTokens (null: use the OIDC flow)
getAuthTokens(cfg) ==
    IF cfg.tokens.set
    THEN IF cfg.tokens.accessToken = Null \/ cfg.tokens.idToken = Null
         THEN NoTokens
         ELSE [access_token |-> cfg.tokens.accessToken,
               id_token |-> cfg.tokens.idToken,
               token_type |-> "Bearer",
               scope |-> "cluster-access"]
    ELSE NoTokens

\* getAuthTokens logs a warning when tokens are configured but incomplete
getAuthTokensWarns(cfg) ==
    cfg.tokens.set /\ (cfg.tokens.accessToken = Null \/ cfg.tokens.idToken = Null)

\* const preConfiguredTokens = await this.getAuthTokens()
preConfiguredTokens == getAuthTokens(config)

\* ------------------------------------------------------------------ crypto
\* mutant of generatePKCE: the challenge is the verifier itself (method plain)
generatePKCEPlain(r) ==
    [codeVerifier |-> Rand(r + 1), codeChallenge |-> Rand(r + 1)]

\* generatePKCE, drawing the next random value
generatePKCE(r) ==
    [codeVerifier |-> Rand(r + 1), codeChallenge |-> Sha256(Rand(r + 1))]

\* generateState, drawing the next random value
generateState(r) == Rand(r + 1)

\* buildAuthorizationUrl: the query parameters the claims are about
buildAuthorizationUrl(codeChallenge, state) ==
    [endpoint |-> "authorize", state |-> state,
     code_challenge |-> codeChallenge, code_challenge_method |-> "S256"]

\* ---------------------------------------------------------------- responses
NoLocation ==
    [endpoint |-> "none", state |-> Null,
     code_challenge |-> Null, code_challenge_method |-> "none"]

\* no window.opener.postMessage in the page
NoMessage ==
    [type |-> "none", tokens |-> NoTokens, backstageToken |-> "none",
     success |-> FALSE, bypassMode |-> FALSE]

\* postMessage({type: 'cluster-tokens', tokens})
ClusterTokensMessage(tokens) ==
    [type |-> "cluster-tokens", tokens |-> tokens, backstageToken |-> "none",
     success |-> FALSE, bypassMode |-> FALSE]

\* postMessage({type: 'backstage-auth-complete', backstageToken, success: true})
AuthCompleteMessage(backstageToken, bypass) ==
    [type |-> "backstage-auth-complete", tokens |-> NoTokens,
     backstageToken |-> backstageToken, success |-> TRUE, bypassMode |-> bypass]

\* res.writeHead(status, ...); res.end(page): the page, the text interpolated
\* into it, the message its script posts to the opener, the Location header
\* and Access-Control-Allow-Origin, which only the health check sets
Response(status, page, detail, message, location) ==
    [status |-> status, page |-> page, detail |-> detail,
     message |-> message, location |-> location, allowOrigin |-> "none"]

\* the handler has not answered yet
NoResponse == Response(0, "none", "none", NoMessage, NoLocation)

\* ------------------------------------------------------------ token endpoint
\* what the identity provider's token endpoint can answer to one POST
TokenEndpointResponses ==
    { [net |-> "ok", status |-> 200, body |-> "tokens"],
      [net |-> "ok", status |-> 200, body |-> "json_without_access_token"],
      [net |-> "ok", status |-> 200, body |-> "not_json"],
      [net |-> "ok", status |-> 400, body |-> "json_error"],
      [net |-> "ok", status |-> 400, body |-> "not_json"],
      [net |-> "error", status |-> 0, body |-> "none"] }

\* the JSON document of a token response, for the exchange of request i
TokenResponseJson(resp, i) ==
    [access_token |-> IF resp.body = "tokens" THEN <<"access", i>> ELSE Null,
     id_token |-> <<"id", i>>,
     token_type |-> "Bearer",
     scope |-> "openid profile email"]

\* exchangeCodeForTokens: how the promise settles on the endpoint's answer
exchangeCodeForTokens(resp, i) ==
    IF resp.net = "error"
    THEN [resolved |-> FALSE, tokens |-> NoTokens,
          error |-> "Token exchange request failed"]
    ELSE IF resp.body = "not_json"
    THEN [resolved |-> FALSE, tokens |-> NoTokens,
          error |-> "Failed to parse token response"]
    ELSE IF resp.status >= 200 /\ resp.status < 300
    THEN [resolved |-> TRUE, tokens |-> TokenResponseJson(resp, i), error |-> "none"]
    ELSE [resolved |-> FALSE, tokens |-> NoTokens, error |-> "Token exchange failed"]

\* ------------------------------------------------------------------ backend
\* what the backend can answer to one POST of /api/cluster-auth/tokens
BackendResponses ==
    { [net |-> "ok", status |-> 200, json |-> TRUE,
       backstageToken |-> "abc", sessionToken |-> "undefined"],
      [net |-> "ok", status |-> 200, json |-> TRUE,
       backstageToken |-> "undefined", sessionToken |-> "abc"],
      [net |-> "ok", status |-> 200, json |-> FALSE,
       backstageToken |-> "undefined", sessionToken |-> "undefined"],
      [net |-> "ok", status |-> 500, json |-> FALSE,
       backstageToken |-> "undefined", sessionToken |-> "undefined"],
      [net |-> "error", status |-> 0, json |-> FALSE,
       backstageToken |-> "undefined", sessionToken |-> "undefined"] }

\* no answer of the backend (no push made, or not settled yet)
NoBackendResponse ==
    [net |-> "none", status |-> 0, json |-> FALSE,
     backstageToken |-> "undefined", sessionToken |-> "undefined"]

\* url.searchParams.get('cookies') || req.headers.cookie || null: whether the
\* request brings cookies to forward
backstageCookies(sent) == sent

\* the headers sendTokensToBackend puts on its POST: Cookie when cookies were
\* passed; this.config holds no backend secret and no such header is set
BackendRequestHeaders(forwarded) ==
    [Cookie |-> forwarded, XAuthSecret |-> FALSE]

\* the POST of /api/cluster-auth/tokens made for request req (0: not a request)
BackendPost(req, tokens, forwarded) ==
    [req |-> req, tokens |-> tokens, headers |-> BackendRequestHeaders(forwarded)]

\* sendTokensToBackend: resolves with the body on 2xx, rejects otherwise
sendTokensToBackend(resp) ==
    resp.net = "ok" /\ resp.status >= 200 /\ resp.status < 300

\* mutant of ParseBackendResponse: the token is read from the field sessionToken
ParseBackendResponseSessionToken(resp) ==
    [parsed |-> resp.json,
     backstageToken |-> IF resp.json THEN resp.sessionToken ELSE "undefined"]

\* JSON.parse(backendResponse.data).backstageToken; parsed is FALSE when it throws
ParseBackendResponse(resp) ==
    [parsed |-> resp.json,
     backstageToken |-> IF resp.json THEN resp.backstageToken ELSE "undefined"]

\* ------------------------------------------------------------------- daemon
\* the query of a request: url.pathname and url.searchParams
Query(path, code, state, error, mode) ==
    [path |-> path, code |-> code, state |-> state, error |-> error, mode |-> mode]

\* the state values the daemon has put into a redirect so far
IssuedStates ==
    { reqs[i].resp.location.state :
        i \in { j \in DOMAIN reqs : reqs[j].resp.status = 302 } }

\* the requests a browser (or anyone on localhost) can send to the daemon
DaemonQueries ==
    { Query("/health", Null, Null, Null, Null),
      Query("/health", Code1, Null, Null, ReturnTokens) }
    \cup { Query("/other", Code1, s, Null, ReturnTokens) :
             s \in IF pendingAuth = <<>> THEN {Null} ELSE {pendingAuth[1].state} }
    \cup { Query("/", Null, Null, Null, m) : m \in {Null, ReturnTokens} }
    \cup { Query("/", Null, Null, AccessDenied, Null) }
    \cup { Query("/", Code1, s, Null, Null) : s \in {Forged} \cup IssuedStates }
    \cup { Query("/", Code1, s, AccessDenied, Null) :
             s \in {Null} \cup { pendingAuth[k].state : k \in DOMAIN pendingAuth } }

\* url.pathname === '/health'
IsHealth(q) == q.path = "/health"

\* url.pathname === '/' && !url.searchParams.has('code')
IsInitiation(q) == ~IsHealth(q) /\ q.path = "/" /\ q.code = Null

\* mutant of IsCallback: a code makes a callback of a request to any path
IsCallbackAnyPath(q) == ~IsHealth(q) /\ q.code # Null

\* url.pathname === '/' && url.searchParams.has('code')
IsCallback(q) == ~IsHealth(q) /\ q.path = "/" /\ q.code # Null

\* mutant of StateMatches: the state parameter is not compared
StateMatchesAnyState(pending, state) == pending # <<>>

\* the negation of: !this.pendingAuth || state !== this.pendingAuth.state
StateMatches(pending, state) == pending # <<>> /\ state = pending[1].state

\* mutant of NewSession: a pending session keeps its verifier
NewSessionKeepsVerifier(codeVerifier, state, returnTokens) ==
    <<[codeVerifier |-> IF pendingAuth # <<>> THEN pendingAuth[1].codeVerifier
                        ELSE codeVerifier,
       state |-> state, returnTokens |-> returnTokens]>>

\* mutant of NewSession: a pending session is not replaced (first initiation wins)
NewSessionFirstWins(codeVerifier, state, returnTokens) ==
    IF pendingAuth # <<>> THEN pendingAuth
    ELSE <<[codeVerifier |-> codeVerifier, state |-> state,
            returnTokens |-> returnTokens]>>

\* this.pendingAuth = { codeVerifier, state, returnTokens }
NewSession(codeVerifier, state, returnTokens) ==
    <<[codeVerifier |-> codeVerifier, state |-> state, returnTokens |-> returnTokens]>>

\* mutant of ClearPendingAuth: the session is left in place
ClearPendingAuthKeeps(pending) == pending

\* delete this.pendingAuth
ClearPendingAuth(pending) == <<>>

\* the page a bypass initiation is answered with: the tokens are posted to the
\* opener, or a completion message whose backstageToken stays null unless a
\* backend is configured, the push resolved and its body parsed
BypassDelivery(returnTokens, backendUrl, tokens, resp) ==
    IF returnTokens
    THEN Response(200, "Authentication Successful", "bypass",
                  ClusterTokensMessage(tokens), NoLocation)
    ELSE LET parsed == ParseBackendResponse(resp)
             backstageToken ==
                 IF backendUrl /\ sendTokensToBackend(resp) /\ parsed.parsed
                 THEN parsed.backstageToken ELSE "null"
         IN  Response(200, "Authentication Successful", "bypass",
                      AuthCompleteMessage(backstageToken, TRUE), NoLocation)

\* the page a callback is answered with once its tokens are exchanged: the
\* tokens are posted to the opener, or, after the push to the backend, a
\* completion message if the push resolved and no message otherwise
CallbackDelivery(returnTokens, backendUrl, tokens, resp) ==
    IF returnTokens
    THEN Response(200, "Authentication Successful", "sending",
                  ClusterTokensMessage(tokens), NoLocation)
    ELSE IF ~backendUrl
    THEN Response(200, "Authentication Successful", "No backend URL configured",
                  NoMessage, NoLocation)
    ELSE IF sendTokensToBackend(resp)
    THEN LET parsed == ParseBackendResponse(resp)
             backstageToken == IF parsed.parsed THEN parsed.backstageToken ELSE "null"
         IN  Response(200, "Authentication Successful", "sent to Backstage",
                      AuthCompleteMessage(backstageToken, FALSE), NoLocation)
    ELSE Response(200, "Authentication Successful", "Could not connect to backend",
                  NoMessage, NoLocation)

\* mutant of LiveSession: a session older than 3 minutes counts as absent
LiveSessionExpires(pending, late) == IF late THEN <<>> ELSE pending

\* the session the callback's check consults: this.pendingAuth as stored, for
\* the daemon keeps no timestamp in it and reads no clock
LiveSession(pending, late) == pending

\* a handler invocation: the request, whether it is a callback that arrived more
\* than 3 minutes after the pending session was stored, where it is suspended, the
\* code_verifier it passed to the exchange, the tokens it obtained, the answer
\* of the backend to its push, its response
Handler(q, pc, verifier, tokens, resp) ==
    [path |-> q.path, code |-> q.code, state |-> q.state, error |-> q.error,
     mode |-> q.mode, late |-> (elapsed /\ q.path = "/" /\ q.code # Null),
     pc |-> pc, verifier |-> verifier,
     tokens |-> tokens, relay |-> NoBackendResponse, resp |-> resp]

\* the server receives q and its handler runs until it answers
Answer(q, resp) ==
    reqs' = Append(reqs, Handler(q, "done", Null, NoTokens, resp))

\* the suspended handler i resumes with the settled call's result and answers
Finish(i, tokens, relay, resp) ==
    reqs' = [reqs EXCEPT ![i].pc = "done", ![i].tokens = tokens,
                         ![i].relay = relay, ![i].resp = resp]

Accepting == daemonPc = "listening" /\ Len(reqs) < MaxRequests

\* ------------------------------------------------------------------ logging
\* a log line that shows the first 30 characters of a token, or all of it
Preview(token) == [token |-> token, complete |-> FALSE]
Complete(token) == [token |-> token, complete |-> TRUE]

\* one line per token present in a token set
PreviewLines(tokens) ==
    { Preview(t) : t \in {tokens.access_token, tokens.id_token} \ {Null} }
CompleteLines(tokens) ==
    { Complete(t) : t \in {tokens.access_token, tokens.id_token} \ {Null} }

\* log -> writeToLogFile: appended to the log file when file logging is enabled
writeToLogFile(log, lines) == IF config.enableLogging THEN log \cup lines ELSE log

\* main(): the configuration is validated; the start command then spawns the
\* daemon, the one-off command calls authenticate()
Main ==
    /\ IF command = "daemon" THEN daemonPc = "cli" ELSE authn.pc = "cli"
    /\ LET pc == IF ConfigurationError(config) THEN "exited" ELSE "start"
       IN  IF command = "daemon"
           THEN daemonPc' = pc /\ UNCHANGED authn
           ELSE authn' = [authn EXCEPT !.pc = pc] /\ UNCHANGED daemonPc
    /\ UNCHANGED <<command, config, jwt, proc, host, logFile, cookies, elapsed, pendingAuth, rand, reqs, tokenCalls,
                   relayCalls, warnings>>

\* startDaemon up to server.listen: the bypass lookup and the startup push,
\* both of which log previews of the configured tokens
StartDaemon ==
    /\ command = "daemon" /\ daemonPc = "start"
    /\ warnings' = warnings + (IF getAuthTokensWarns(config) THEN 1 ELSE 0)
    /\ IF preConfiguredTokens # NoTokens /\ config.backendUrl
       THEN /\ relayCalls' = relayCalls \cup {BackendPost(0, preConfiguredTokens, FALSE)}
            /\ daemonPc' = "startupPush"
       ELSE /\ daemonPc' = "binding"
            /\ UNCHANGED relayCalls
    /\ logFile' = writeToLogFile(logFile, PreviewLines(preConfiguredTokens))
    /\ UNCHANGED <<command, config, jwt, proc, host, cookies, elapsed, pendingAuth, rand, reqs, tokenCalls, authn>>

\* mutant of StartupPushDone: a failed startup push stops the daemon
StartupPushDoneOrAbort(resp) ==
    /\ daemonPc = "startupPush"
    /\ daemonPc' = IF sendTokensToBackend(resp) THEN "binding" ELSE "failed"
    /\ UNCHANGED <<command, config, jwt, proc, host, logFile, cookies, elapsed, pendingAuth, rand, reqs, tokenCalls,
                   relayCalls, warnings, authn>>

\* the startup push settles (its outcome is only logged); server.listen is called
StartupPushDone(resp) ==
    /\ daemonPc = "startupPush"
    /\ daemonPc' = "binding"
    /\ UNCHANGED <<command, config, jwt, proc, host, logFile, cookies, elapsed, pendingAuth, rand, reqs, tokenCalls,
                   relayCalls, warnings, authn>>

\* server.listen's callback, or its 'error' event (EADDRINUSE)
Listen(ok) ==
    /\ daemonPc = "binding"
    /\ daemonPc' = IF ok THEN "listening" ELSE "failed"
    /\ UNCHANGED <<command, config, jwt, proc, host, logFile, cookies, elapsed, pendingAuth, rand, reqs, tokenCalls,
                   relayCalls, warnings, authn>>

\* mutant of HealthResponse: the health check answers without CORS headers
HealthResponseSameOrigin == Response(200, "health", "running", NoMessage, NoLocation)

\* 200 {"status":"running","issuer":...} with Access-Control-Allow-Origin: *
HealthResponse ==
    [Response(200, "health", "running", NoMessage, NoLocation) EXCEPT !.allowOrigin = "*"]

\* GET /health
Health(q) ==
    /\ Accepting /\ IsHealth(q)
    /\ Answer(q, HealthResponse)
    /\ UNCHANGED <<command, config, jwt, proc, host, logFile, cookies, elapsed, daemonPc, pendingAuth, rand, tokenCalls,
                   relayCalls, warnings, authn>>

\* GET / without code, bypass mode: the tokens are delivered at once
InitiateBypass(q) ==
    /\ Accepting /\ IsInitiation(q)
    /\ preConfiguredTokens # NoTokens
    /\ IF q.mode = ReturnTokens
       THEN /\ Answer(q, BypassDelivery(TRUE, config.backendUrl, preConfiguredTokens,
                                        NoBackendResponse))
            /\ UNCHANGED relayCalls
       ELSE IF config.backendUrl
       THEN /\ reqs' = Append(reqs, Handler(q, "bypassRelay", Null,
                                            preConfiguredTokens, NoResponse))
            /\ relayCalls' = relayCalls \cup
                 {BackendPost(Len(reqs) + 1, preConfiguredTokens, backstageCookies(cookies))}
       ELSE /\ Answer(q, BypassDelivery(FALSE, FALSE, preConfiguredTokens,
                                        NoBackendResponse))
            /\ UNCHANGED relayCalls
    /\ logFile' = writeToLogFile(logFile, PreviewLines(preConfiguredTokens))
    /\ UNCHANGED <<command, config, jwt, proc, host, cookies, elapsed, daemonPc, pendingAuth, rand, tokenCalls,
                   warnings, authn>>

\* the relay of a bypass initiation settles: backstageToken stays null unless
\* the call resolved and its body parsed
BypassRelayDone(i, resp) ==
    /\ i \in DOMAIN reqs /\ reqs[i].pc = "bypassRelay"
    /\ Finish(i, reqs[i].tokens, resp,
              BypassDelivery(FALSE, config.backendUrl, reqs[i].tokens, resp))
    /\ UNCHANGED <<command, config, jwt, proc, host, logFile, cookies, elapsed, daemonPc, pendingAuth, rand, tokenCalls,
                   relayCalls, warnings, authn>>

\* GET / without code, normal OIDC flow: begin a session, redirect to the provider
Initiate(q) ==
    /\ Accepting /\ IsInitiation(q)
    /\ preConfiguredTokens = NoTokens
    /\ LET pkce == generatePKCE(rand)
           state == generateState(rand + 1)
       IN  /\ pendingAuth' = NewSession(pkce.codeVerifier, state, q.mode = ReturnTokens)
           /\ Answer(q, Response(302, "none", "none", NoMessage,
                                 buildAuthorizationUrl(pkce.codeChallenge, state)))
    /\ rand' = rand + 2
    /\ elapsed' = FALSE
    /\ UNCHANGED <<command, config, jwt, proc, host, logFile, cookies, daemonPc, tokenCalls, relayCalls, warnings, authn>>

\* three minutes pass after the pending session was stored: the daemon armed
\* no timer for it, so nothing in the process changes
SessionAges ==
    /\ command = "daemon" /\ pendingAuth # <<>> /\ ~elapsed
    /\ elapsed' = TRUE
    /\ UNCHANGED <<command, config, jwt, proc, host, logFile, cookies, daemonPc, pendingAuth, rand, reqs, tokenCalls,
                   relayCalls, warnings, authn>>

\* mutant of Callback: a provider error or a rejected state drops the session
CallbackRejectionClears(q) ==
    /\ Accepting /\ IsCallback(q)
    /\ IF q.error # Null
       THEN /\ Answer(q, Response(200, "Authentication Failed", "provider error",
                                  NoMessage, NoLocation))
            /\ pendingAuth' = <<>>
            /\ UNCHANGED tokenCalls
       ELSE IF ~StateMatches(LiveSession(pendingAuth, elapsed), q.state)
       THEN /\ Answer(q, Response(400, "Invalid or expired authentication session",
                                  "none", NoMessage, NoLocation))
            /\ pendingAuth' = <<>>
            /\ UNCHANGED tokenCalls
       ELSE /\ reqs' = Append(reqs, Handler(q, "exchange", pendingAuth[1].codeVerifier,
                                            NoTokens, NoResponse))
            /\ tokenCalls' = tokenCalls \cup
                 {[req |-> Len(reqs) + 1, code |-> q.code,
                   code_verifier |-> pendingAuth[1].codeVerifier]}
            /\ UNCHANGED pendingAuth
    /\ UNCHANGED <<command, config, jwt, proc, host, logFile, cookies, elapsed, daemonPc, rand, relayCalls,
                   warnings, authn>>

\* GET / with code: provider error page, rejection, or the token exchange begins
Callback(q) ==
    /\ Accepting /\ IsCallback(q)
    /\ IF q.error # Null
       THEN /\ Answer(q, Response(200, "Authentication Failed", "provider error",
                                  NoMessage, NoLocation))
            /\ UNCHANGED tokenCalls
       ELSE IF ~StateMatches(LiveSession(pendingAuth, elapsed), q.state)
       THEN /\ Answer(q, Response(400, "Invalid or expired authentication session",
                                  "none", NoMessage, NoLocation))
            /\ UNCHANGED tokenCalls
       ELSE /\ reqs' = Append(reqs, Handler(q, "exchange", pendingAuth[1].codeVerifier,
                                            NoTokens, NoResponse))
            /\ tokenCalls' = tokenCalls \cup
                 {[req |-> Len(reqs) + 1, code |-> q.code,
                   code_verifier |-> pendingAuth[1].codeVerifier]}
    /\ UNCHANGED <<command, config, jwt, proc, host, logFile, cookies, elapsed, daemonPc, pendingAuth, rand, relayCalls,
                   warnings, authn>>

\* mutant of ExchangeFailedResponse: the failure page is sent with status 200
ExchangeFailedResponseOk(error) ==
    Response(200, "Token Exchange Failed", error, NoMessage, NoLocation)

\* the catch block of the callback handler: 500 with the error's message
ExchangeFailedResponse(error) ==
    Response(500, "Token Exchange Failed", error, NoMessage, NoLocation)

\* the token exchange of callback i settles and the handler resumes: it reads
\* this.pendingAuth.returnTokens (a TypeError when pendingAuth is gone, caught
\* like a failed exchange), deletes pendingAuth and delivers the tokens
ExchangeDone(i, resp) ==
    /\ i \in DOMAIN reqs /\ reqs[i].pc = "exchange"
    /\ LET result == exchangeCodeForTokens(resp, i)
       IN  IF ~result.resolved
           THEN /\ Finish(i, NoTokens, NoBackendResponse,
                          ExchangeFailedResponse(result.error))
                /\ UNCHANGED <<pendingAuth, relayCalls, elapsed>>
           ELSE IF pendingAuth = <<>>
           THEN /\ Finish(i, result.tokens, NoBackendResponse,
                          ExchangeFailedResponse("TypeError"))
                /\ UNCHANGED <<pendingAuth, relayCalls, elapsed>>
           ELSE /\ pendingAuth' = ClearPendingAuth(pendingAuth)
                /\ elapsed' = (elapsed /\ pendingAuth' # <<>>)
                /\ IF pendingAuth[1].returnTokens
                   THEN /\ Finish(i, result.tokens, NoBackendResponse,
                                  CallbackDelivery(TRUE, config.backendUrl, result.tokens,
                                                   NoBackendResponse))
                        /\ UNCHANGED relayCalls
                   ELSE IF config.backendUrl
                   THEN /\ reqs' = [reqs EXCEPT ![i].pc = "relay",
                                                ![i].tokens = result.tokens]
                        /\ relayCalls' = relayCalls \cup
                             {BackendPost(i, result.tokens, backstageCookies(cookies))}
                   ELSE /\ Finish(i, result.tokens, NoBackendResponse,
                                  CallbackDelivery(FALSE, FALSE, result.tokens,
                                                   NoBackendResponse))
                        /\ UNCHANGED relayCalls
    /\ logFile' = IF reqs'[i].pc = "relay"
                  THEN writeToLogFile(logFile, PreviewLines(reqs'[i].tokens))
                  ELSE logFile
    /\ UNCHANGED <<command, config, jwt, proc, host, cookies, daemonPc, rand, tokenCalls, warnings, authn>>

\* the relay of callback i settles: a success page either way
RelayDone(i, resp) ==
    /\ i \in DOMAIN reqs /\ reqs[i].pc = "relay"
    /\ Finish(i, reqs[i].tokens, resp,
              CallbackDelivery(FALSE, config.backendUrl, reqs[i].tokens, resp))
    /\ UNCHANGED <<command, config, jwt, proc, host, logFile, cookies, elapsed, daemonPc, pendingAuth, rand, tokenCalls,
                   relayCalls, warnings, authn>>

\* any other path
NotFound(q) ==
    /\ Accepting
    /\ ~IsHealth(q) /\ ~IsInitiation(q) /\ ~IsCallback(q)
    /\ Answer(q, Response(404, "404 - Not Found", "none", NoMessage, NoLocation))
    /\ UNCHANGED <<command, config, jwt, proc, host, logFile, cookies, elapsed, daemonPc, pendingAuth, rand, tokenCalls,
                   relayCalls, warnings, authn>>

\* the request target of a request whose req.url does not parse against the
\* base URL (for instance "//"): no url, no pathname, no searchParams
NoUrl == Query("none", Null, Null, Null, Null)

\* new URL(req.url, ...) throws ERR_INVALID_URL at the top of the handler: the
\* async handler's promise rejects before any route is tried, nothing catches
\* it and no response is written. Depending on the runtime's handling of
\* unhandled rejections the process either goes on serving or terminates, which
\* also ends the handlers suspended in an outbound call.
InvalidUrl(crash) ==
    /\ Accepting
    /\ LET thrown == Append(reqs, Handler(NoUrl, "thrown", Null, NoTokens, NoResponse))
       IN  reqs' = IF crash
                   THEN [i \in DOMAIN thrown |->
                           IF thrown[i].pc \in {"exchange", "relay", "bypassRelay"}
                           THEN [thrown[i] EXCEPT !.pc = "killed"]
                           ELSE thrown[i]]
                   ELSE thrown
    /\ daemonPc' = IF crash THEN "crashed" ELSE daemonPc
    /\ UNCHANGED <<command, config, jwt, proc, host, logFile, cookies, elapsed, pendingAuth, rand,
                   tokenCalls, relayCalls, warnings, authn>>

\* ----------------------------------------------------------------- one-shot
\* the requests that can reach the one-shot callback server
OneShotQueries ==
    { Query("/other", Code1, authn.state, Null, Null) }
    \cup { Query("/", c, Null, AccessDenied, Null) : c \in {Null, Code1} }
    \cup { Query("/", Null, authn.state, Null, Null) }
    \cup { Query("/", Code1, s, Null, Null) : s \in {Forged, authn.state} }

\* authenticate() has not been called (the process runs the daemon)
NoAuthn ==
    [pc |-> "off", codeVerifier |-> Null, state |-> Null, server |-> "none",
     timer |-> "none", promise |-> "none", error |-> "none", tokens |-> NoTokens]

\* mutant of Settle: a later resolve or reject overrides the settled promise
SettleAgain(a, resolved, error) ==
    IF resolved
    THEN [a EXCEPT !.promise = "resolved", !.pc = "exchange"]
    ELSE [a EXCEPT !.promise = "rejected", !.pc = "threw", !.error = error]

\* the promise of startCallbackServerAndWaitForCode settles once; authenticate()
\* resumes: it posts the exchange on resolve(code) and throws on reject(error)
Settle(a, resolved, error) ==
    IF a.promise # "pending" THEN a
    ELSE IF resolved
    THEN [a EXCEPT !.promise = "resolved", !.pc = "exchange"]
    ELSE [a EXCEPT !.promise = "rejected", !.pc = "threw", !.error = error]

\* authenticate() up to the wait for the code: bypass lookup, PKCE, state,
\* the callback server is created, listen is called and the timeout is armed
Authenticate ==
    /\ command = "oneshot" /\ authn.pc = "start"
    /\ warnings' = warnings + (IF getAuthTokensWarns(config) THEN 1 ELSE 0)
    /\ IF preConfiguredTokens # NoTokens
       THEN /\ authn' = [authn EXCEPT !.pc = "returned", !.tokens = preConfiguredTokens]
            /\ UNCHANGED rand
       ELSE /\ authn' = [authn EXCEPT
                            !.pc = "waiting",
                            !.codeVerifier = generatePKCE(rand).codeVerifier,
                            !.state = generateState(rand + 1),
                            !.server = "binding",
                            !.timer = "armed",
                            !.promise = "pending"]
            /\ rand' = rand + 2
    /\ logFile' = writeToLogFile(logFile, PreviewLines(preConfiguredTokens))
    /\ UNCHANGED <<command, config, jwt, proc, host, cookies, elapsed, daemonPc, pendingAuth, reqs, tokenCalls, relayCalls>>

\* server.listen's callback, or its 'error' event, which rejects the promise
OneShotListen(ok) ==
    /\ authn.server = "binding"
    /\ authn' = IF ok THEN [authn EXCEPT !.server = "open"]
                ELSE [Settle(authn, FALSE, "Port is already in use")
                        EXCEPT !.server = "failed"]
    /\ UNCHANGED <<command, config, jwt, proc, host, logFile, cookies, elapsed, daemonPc, pendingAuth, rand, reqs, tokenCalls,
                   relayCalls, warnings>>

\* the delay of the timeout, in milliseconds
AuthenticationTimeout == 3 * 60 * 1000

\* mutant of OneShotTimeout: the timer rejects but leaves the server open
OneShotTimeoutKeepsServer ==
    /\ authn.timer = "armed" /\ authn.server \in {"open", "closed", "failed"}
    /\ authn' = [Settle(authn, FALSE, "Authentication timeout (3 minutes)")
                   EXCEPT !.timer = "fired"]
    /\ UNCHANGED <<command, config, jwt, proc, host, logFile, cookies, elapsed, daemonPc, pendingAuth, rand, reqs,
                   tokenCalls, relayCalls, warnings>>

\* the 3-minute timer fires: server.close() and reject
OneShotTimeout ==
    /\ authn.timer = "armed" /\ authn.server \in {"open", "closed", "failed"}
    /\ authn' = [Settle(authn, FALSE, "Authentication timeout (3 minutes)")
                   EXCEPT !.timer = "fired",
                          !.server = IF @ = "failed" THEN "failed" ELSE "closed"]
    /\ UNCHANGED <<command, config, jwt, proc, host, logFile, cookies, elapsed, daemonPc, pendingAuth, rand, reqs, tokenCalls,
                   relayCalls, warnings>>

\* a request reaches the callback server (on a new connection while it is
\* open, on a kept-alive connection after server.close())
OneShotRequest(q) ==
    /\ authn.server \in {"open", "closed"} /\ Len(reqs) < MaxRequests
    /\ IF q.path # "/"
       THEN /\ Answer(q, Response(404, "Not Found", "none", NoMessage, NoLocation))
            /\ UNCHANGED <<authn, tokenCalls>>
       ELSE IF q.error # Null
       THEN /\ Answer(q, Response(200, "Authentication Failed", "provider error",
                                  NoMessage, NoLocation))
            /\ authn' = [Settle(authn, FALSE, "Auth0 Error") EXCEPT !.server = "closed"]
            /\ UNCHANGED tokenCalls
       ELSE IF q.code = Null
       THEN /\ Answer(q, Response(400, "No authorization code received", "none",
                                  NoMessage, NoLocation))
            /\ authn' = [Settle(authn, FALSE, "No authorization code received")
                           EXCEPT !.server = "closed"]
            /\ UNCHANGED tokenCalls
       ELSE IF q.state # authn.state
       THEN /\ Answer(q, Response(400, "State mismatch", "none", NoMessage, NoLocation))
            /\ authn' = [Settle(authn, FALSE, "State mismatch") EXCEPT !.server = "closed"]
            /\ UNCHANGED tokenCalls
       ELSE /\ Answer(q, Response(200, "Authentication Successful", "return to terminal",
                                  NoMessage, NoLocation))
            /\ authn' = [Settle(authn, TRUE, "none") EXCEPT !.server = "closed"]
            /\ tokenCalls' =
                 IF authn.promise = "pending"
                 THEN tokenCalls \cup {[req |-> Len(reqs) + 1, code |-> q.code,
                                        code_verifier |-> authn.codeVerifier]}
                 ELSE tokenCalls
    /\ UNCHANGED <<command, config, jwt, proc, host, logFile, cookies, elapsed, daemonPc, pendingAuth, rand, relayCalls, warnings>>

\* the one-shot token exchange settles: authenticate() logs the tokens it
\* obtained, whole, and returns them, or throws
OneShotExchangeDone(resp) ==
    /\ authn.pc = "exchange"
    /\ LET result == exchangeCodeForTokens(resp, 0)
       IN  authn' = IF result.resolved
                    THEN [authn EXCEPT !.pc = "returned", !.tokens = result.tokens]
                    ELSE [authn EXCEPT !.pc = "threw", !.error = result.error]
    /\ logFile' = IF authn'.pc = "returned"
                  THEN writeToLogFile(logFile, CompleteLines(authn'.tokens))
                  ELSE logFile
    /\ UNCHANGED <<command, config, jwt, proc, host, cookies, elapsed, daemonPc, pendingAuth, rand, reqs, tokenCalls,
                   relayCalls, warnings>>

\* ------------------------------------------------------------ token decoder
\* A string is the sequence of its character codes.  The decoder is applied
\* to one input at a time: jwt holds the argument and what decodeJWT returned.

\* bounds of the decoder's inputs
\* members of a payload object
MaxMembers == 2
\* segments of a token
MaxSegments == 6

\* an argument that is not a string (undefined, null, a number)
NotAString == <<-1>>

\* a JSON value: null, a number, or an object (members in insertion order)
JsonNumber(n) == <<"number", n>>
JsonObject(members) == <<"object", members>>

\* String.prototype.split('.')
RECURSIVE split(_)
split(s) ==
    IF \E i \in DOMAIN s : s[i] = 46
    THEN LET i == CHOOSE k \in DOMAIN s : s[k] = 46 /\ \A l \in 1..(k - 1) : s[l] # 46
         IN  <<SubSeq(s, 1, i - 1)>> \o split(SubSeq(s, i + 1, Len(s)))
    ELSE <<s>>

\* String.prototype.replace(/from/g, to) for a single character
replace(s, from, to) == [i \in DOMAIN s |-> IF s[i] = from THEN to ELSE s[i]]

\* the value of a character of the standard base64 alphabet, -1 for any other
Base64Value(c) ==
    IF c \in 65..90 THEN c - 65
    ELSE IF c \in 97..122 THEN c - 71
    ELSE IF c \in 48..57 THEN c + 4
    ELSE IF c = 43 THEN 62
    ELSE IF c = 47 THEN 63
    ELSE -1

\* mutant of SextetsToBytes: only complete groups of four characters are decoded
RECURSIVE SextetsToBytesWholeGroups(_)
SextetsToBytesWholeGroups(v) ==
    IF Len(v) < 4 THEN <<>>
    ELSE <<v[1] * 4 + v[2] \div 16, (v[2] % 16) * 16 + v[3] \div 4, (v[3] % 4) * 64 + v[4]>>
         \o SextetsToBytesWholeGroups(SubSeq(v, 5, Len(v)))

\* the bytes of a sequence of 6-bit values; a last group of two or three
\* values gives one or two bytes, a single left-over value gives none
RECURSIVE SextetsToBytes(_)
SextetsToBytes(v) ==
    IF Len(v) < 2 THEN <<>>
    ELSE IF Len(v) = 2 THEN <<v[1] * 4 + v[2] \div 16>>
    ELSE IF Len(v) = 3 THEN <<v[1] * 4 + v[2] \div 16, (v[2] % 16) * 16 + v[3] \div 4>>
    ELSE <<v[1] * 4 + v[2] \div 16, (v[2] % 16) * 16 + v[3] \div 4, (v[3] % 4) * 64 + v[4]>>
         \o SextetsToBytes(SubSeq(v, 5, Len(v)))

\* Buffer.from(s, 'base64'): never throws; characters outside the alphabet
\* are ignored and padding is not required
BufferFromBase64(s) ==
    LET valid == SelectSeq(s, LAMBDA c : Base64Value(c) >= 0)
    IN  SextetsToBytes([i \in DOMAIN valid |-> Base64Value(valid[i])])

\* Buffer.prototype.toString('utf8') of bytes that hold no multi-byte sequence:
\* a byte above 127 becomes U+FFFD
toStringUtf8(bytes) == [i \in DOMAIN bytes |-> IF bytes[i] < 128 THEN bytes[i] ELSE 65533]

\* JSON.parse throws a SyntaxError
SyntaxError == [ok |-> FALSE, value |-> Null]

\* obj[key] = value: a key already present keeps its position
Put(members, key, value) ==
    IF \E i \in DOMAIN members : members[i][1] = key
    THEN [i \in DOMAIN members |-> IF members[i][1] = key THEN <<key, value>> ELSE members[i]]
    ELSE Append(members, <<key, value>>)

\* JSON.parse inside an object, at the opening quote of a member's key
RECURSIVE ParseMembers(_, _, _)
ParseMembers(t, i, members) ==
    IF i > Len(t) \/ t[i] # 34 \/ ~(\E j \in (i + 1)..Len(t) : t[j] = 34)
    THEN SyntaxError
    ELSE LET close == CHOOSE j \in (i + 1)..Len(t) :
                          t[j] = 34 /\ \A k \in (i + 1)..(j - 1) : t[k] # 34
             key == SubSeq(t, i + 1, close - 1)
         IN  IF \/ \E k \in DOMAIN key : key[k] < 32 \/ key[k] = 92
                \/ close + 3 > Len(t)
                \/ t[close + 1] # 58
                \/ t[close + 2] \notin 48..57
             THEN SyntaxError
             ELSE LET next == Put(members, key, t[close + 2] - 48)
                  IN  IF t[close + 3] = 125
                      THEN IF close + 3 = Len(t)
                           THEN [ok |-> TRUE, value |-> JsonObject(next)]
                           ELSE SyntaxError
                      ELSE IF t[close + 3] = 44
                      THEN ParseMembers(t, close + 4, next)
                      ELSE SyntaxError

\* JSON.parse on the texts that arise here: a one-digit number, or an object
\* whose members are "key":digit without white space; any other text is a
\* syntax error
JSONParse(t) ==
    IF Len(t) = 1 /\ t[1] \in 48..57 THEN [ok |-> TRUE, value |-> JsonNumber(t[1] - 48)]
    ELSE IF t = <<123, 125>> THEN [ok |-> TRUE, value |-> JsonObject(<<>>)]
    ELSE IF Len(t) > 2 /\ t[1] = 123 THEN ParseMembers(t, 2, <<>>)
    ELSE SyntaxError

\* mutant of decodeJWT: a payload that fails to parse is not reported as an error
decodeJWTUnchecked(token) ==
    IF token = NotAString THEN [type |-> "error", payload |-> Null]
    ELSE LET parts == split(token)
         IN  IF Len(parts) = 5 THEN [type |-> "jwe", payload |-> Null]
             ELSE IF Len(parts) # 3 THEN [type |-> "unknown", payload |-> Null]
             ELSE LET base64 == replace(replace(parts[2], 45, 43), 95, 47)
                      jsonPayload == toStringUtf8(BufferFromBase64(base64))
                  IN  [type |-> "jwt", payload |-> JSONParse(jsonPayload).value]

\* decodeJWT(token): token.split throws for a non-string and JSON.parse throws
\* on malformed text; the catch block turns both into type 'error'
decodeJWT(token) ==
    IF token = NotAString THEN [type |-> "error", payload |-> Null]
    ELSE LET parts == split(token)
         IN  IF Len(parts) = 5 THEN [type |-> "jwe", payload |-> Null]
             ELSE IF Len(parts) # 3 THEN [type |-> "unknown", payload |-> Null]
             ELSE LET base64 == replace(replace(parts[2], 45, 43), 95, 47)
                      jsonPayload == toStringUtf8(BufferFromBase64(base64))
                      parsed == JSONParse(jsonPayload)
                  IN  IF parsed.ok
                      THEN [type |-> "jwt", payload |-> parsed.value]
                      ELSE [type |-> "error", payload |-> Null]

\* no call of the decoder
NoResult == [type |-> "none", payload |-> Null]
NoJwt == [pc |-> "off", token |-> <<>>, built |-> FALSE, claims |-> Null, result |-> NoResult]

\* the decoder returns
DecodeJWT ==
    /\ jwt.pc = "call"
    /\ jwt' = [jwt EXCEPT !.pc = "returned", !.result = decodeJWT(jwt.token)]
    /\ UNCHANGED <<command, config, proc, host, logFile, cookies, elapsed, daemonPc, pendingAuth, rand, reqs,
                   tokenCalls, relayCalls, warnings, authn>>

\* --- the tokens the decoder is applied to
\* the character of a 6-bit value in the URL-safe alphabet
Base64UrlChar(v) ==
    IF v < 26 THEN 65 + v
    ELSE IF v < 52 THEN 71 + v
    ELSE IF v < 62 THEN v - 4
    ELSE IF v = 62 THEN 45
    ELSE 95

\* base64url without padding, what decodeJWT's middle segment is encoded with
RECURSIVE base64url(_)
base64url(b) ==
    IF b = <<>> THEN <<>>
    ELSE LET b1 == b[1]
             b2 == IF Len(b) > 1 THEN b[2] ELSE 0
             b3 == IF Len(b) > 2 THEN b[3] ELSE 0
             group == <<Base64UrlChar(b1 \div 4),
                        Base64UrlChar((b1 % 4) * 16 + b2 \div 16),
                        Base64UrlChar((b2 % 16) * 4 + b3 \div 64),
                        Base64UrlChar(b3 % 64)>>
         IN  IF Len(b) < 3 THEN SubSeq(group, 1, Len(b) + 1)
             ELSE group \o base64url(SubSeq(b, 4, Len(b)))

\* JSON.stringify of an object's members
RECURSIVE StringifyMembers(_)
StringifyMembers(m) ==
    IF m = <<>> THEN <<>>
    ELSE <<34>> \o m[1][1] \o <<34, 58, 48 + m[1][2]>>
         \o (IF Len(m) > 1 THEN <<44>> ELSE <<>>) \o StringifyMembers(Tail(m))

\* JSON.stringify of an object
JSONStringify(members) == <<123>> \o StringifyMembers(members) \o <<125>>

\* payload objects: up to MaxMembers members with distinct keys "a", "?", "sub"
PayloadKeys == {<<97>>, <<63>>, <<115, 117, 98>>}
PayloadValues == {0, 7}
Payloads ==
    { m \in UNION { [1..n -> PayloadKeys \X PayloadValues] : n \in 0..MaxMembers } :
        \A i, j \in DOMAIN m : m[i][1] = m[j][1] => i = j }

\* header and signature bytes: empty, a JSON header, a binary signature
Headers == {<<>>, <<123, 125>>}
Signatures == {<<>>, <<1, 255, 62, 251>>}

\* s1.s2. ... .sn
RECURSIVE join(_)
join(segments) ==
    IF Len(segments) = 1 THEN segments[1]
    ELSE segments[1] \o <<46>> \o join(Tail(segments))

\* base64url(header).base64url(JSON(P)).base64url(signature)
SignedToken(header, members, signature) ==
    join(<<base64url(header), base64url(JSONStringify(members)), base64url(signature)>>)

\* segments of tokens that nobody signed: empty, one character, a payload
OtherSegments == {<<>>, <<65>>, base64url(JSONStringify(<<<<<<97>>, 0>>>>))}

\* middle segments that are not the encoding of an object: every proper
\* prefix of an encoding, an encoding followed by a character outside the
\* alphabet, the number 7, an object that repeats a key
MalformedSegments ==
    LET whole == base64url(JSONStringify(<<<<<<97>>, 0>>, <<<<63>>, 7>>>>))
    IN  { SubSeq(whole, 1, n) : n \in 0..(Len(whole) - 1) }
        \cup { whole \o <<33>>, base64url(<<55>>),
               base64url(<<123, 34, 97, 34, 58, 48, 44, 34, 97, 34, 58, 55, 125>>) }

DecoderInputs ==
    { [NoJwt EXCEPT !.pc = "call", !.token = SignedToken(h, p, s),
                    !.built = TRUE, !.claims = JsonObject(p)] :
        h \in Headers, p \in Payloads, s \in Signatures }
    \cup { [NoJwt EXCEPT !.pc = "call", !.token = join(segments)] :
             segments \in UNION { [1..n -> OtherSegments] : n \in 1..MaxSegments } }
    \cup { [NoJwt EXCEPT !.pc = "call", !.token = join(<<<<65>>, m, <<65>>>>)] :
             m \in MalformedSegments }
    \cup { [NoJwt EXCEPT !.pc = "call", !.token = NotAString] }

\* ---------------------------------------------------- configuration sources
\* the settings that have a command-line option, an environment variable and
\* a config.yaml key: --issuer / OIDC_ISSUER_URL / issuer, --client-id /
\* OIDC_CLIENT_ID / clientId, --organization / OIDC_ORGANIZATION_ID /
\* organizationId
Settings == {"issuer", "clientId", "organizationId"}

\* the value a source gives for a setting
FromSource(source, setting) == <<source, setting>>

\* what a source holds: for each setting its value, or Null when it is absent
SourceValues(source) ==
    { [k \in Settings |-> IF k \in present THEN FromSource(source, k) ELSE Null] :
        present \in SUBSET Settings }

\* parseArgs(): config.yaml first (fileConfig.x || null), then the option
\* overwrites it, then the environment variable fills what is still empty
parseArgs(argv, env, fileConfig) ==
    [k \in Settings |->
        LET fromFile == fileConfig[k]
            afterOptions == IF argv[k] # Null THEN argv[k] ELSE fromFile
        IN  IF afterOptions = Null THEN env[k] ELSE afterOptions]

\* no call of parseArgs
NoProc ==
    [pc |-> "off", argv |-> [k \in Settings |-> Null], env |-> [k \in Settings |-> Null],
     fileConfig |-> [k \in Settings |-> Null], config |-> [k \in Settings |-> Null]]

\* process.argv, process.env and config.yaml when the CLI starts
ProcessInputs ==
    { [NoProc EXCEPT !.pc = "call", !.argv = a, !.env = e, !.fileConfig = f] :
        a \in SourceValues("argv"), e \in SourceValues("env"),
        f \in SourceValues("config.yaml") }

\* parseArgs returns the configuration
ParseArgs ==
    /\ proc.pc = "call"
    /\ proc' = [proc EXCEPT !.pc = "returned",
                            !.config = parseArgs(proc.argv, proc.env, proc.fileConfig)]
    /\ UNCHANGED <<command, config, jwt, host, logFile, cookies, elapsed, daemonPc, pendingAuth, rand,
                   reqs, tokenCalls, relayCalls, warnings, authn>>

\* ---------------------------------------------------------- daemon lifecycle
\* The start, stop and status commands of the CLI and the daemon processes
\* that start spawns, on one machine: they share the PID file and the port.

\* start commands issued; the k-th one spawns the daemon process with PID k
MaxStarts == 2
Pids == 1..MaxStarts

\* the PID file does not exist; nobody listens on the port
NoPid == 0

\* process.kill(pid, 0) succeeds: the process exists
Alive(h, pid) == pid \in Pids /\ h.daemon[pid] \in {"spawned", "starting", "listening"}

\* isDaemonRunning(): reads the PID file and probes the process; a stale
\* file is unlinked
isDaemonRunning(h) ==
    IF h.pidFile = NoPid THEN [running |-> FALSE, pid |-> NoPid, pidFile |-> NoPid]
    ELSE IF Alive(h, h.pidFile)
    THEN [running |-> TRUE, pid |-> h.pidFile, pidFile |-> h.pidFile]
    ELSE [running |-> FALSE, pid |-> NoPid, pidFile |-> NoPid]

\* fs.writeFileSync(pidFile, process.pid)
writePidFile(pid) == pid

\* fs.unlinkSync(pidFile) if it exists, whatever PID it holds
removePidFile == NoPid

\* no command was run on the machine
NoHost ==
    [pidFile |-> NoPid, port |-> NoPid,
     start |-> [k \in Pids |-> "idle"], daemon |-> [k \in Pids |-> "none"],
     sigterm |-> {}, status |-> "none"]

\* main(), command start: refuses when a daemon is running, else spawns the
\* detached daemon process and waits one second
Start(k) ==
    /\ host.start[k] = "idle"
    /\ LET status == isDaemonRunning(host)
       IN  host' = IF status.running
                   THEN [host EXCEPT !.start[k] = "already running"]
                   ELSE [host EXCEPT !.start[k] = "waiting", !.daemon[k] = "spawned",
                                     !.pidFile = status.pidFile]
    /\ UNCHANGED <<command, config, jwt, proc, logFile, cookies, elapsed, daemonPc, pendingAuth,
                   rand, reqs, tokenCalls, relayCalls, warnings, authn>>

\* main(), command start, after the wait: reports what isDaemonRunning says
StartReport(k) ==
    /\ host.start[k] = "waiting"
    /\ LET status == isDaemonRunning(host)
       IN  host' = [host EXCEPT !.start[k] = IF status.running THEN "started" ELSE "failed",
                                !.pidFile = status.pidFile]
    /\ UNCHANGED <<command, config, jwt, proc, logFile, cookies, elapsed, daemonPc, pendingAuth,
                   rand, reqs, tokenCalls, relayCalls, warnings, authn>>

\* main(), command _internal_daemon: writes the PID file, installs the signal
\* handlers and calls startDaemon
InternalDaemon(k) ==
    /\ host.daemon[k] = "spawned"
    /\ host' = [host EXCEPT !.daemon[k] = "starting", !.pidFile = writePidFile(k)]
    /\ UNCHANGED <<command, config, jwt, proc, logFile, cookies, elapsed, daemonPc, pendingAuth,
                   rand, reqs, tokenCalls, relayCalls, warnings, authn>>

\* startDaemon resolves (the port is bound), or it rejects (EADDRINUSE when
\* another process holds the port) and the catch block removes the PID file
\* and exits
DaemonListen(k, ok) ==
    /\ host.daemon[k] = "starting"
    /\ ok => host.port = NoPid
    /\ host' = IF ok
               THEN [host EXCEPT !.daemon[k] = "listening", !.port = k]
               ELSE [host EXCEPT !.daemon[k] = "exited", !.pidFile = removePidFile,
                                 !.sigterm = @ \ {k}]
    /\ UNCHANGED <<command, config, jwt, proc, logFile, cookies, elapsed, daemonPc, pendingAuth,
                   rand, reqs, tokenCalls, relayCalls, warnings, authn>>

\* the daemon's SIGTERM handler: removes the PID file and exits
DaemonSigterm(k) ==
    /\ k \in host.sigterm /\ host.daemon[k] \in {"starting", "listening"}
    /\ host' = [host EXCEPT !.daemon[k] = "exited", !.pidFile = removePidFile,
                            !.sigterm = @ \ {k},
                            !.port = IF @ = k THEN NoPid ELSE @]
    /\ UNCHANGED <<command, config, jwt, proc, logFile, cookies, elapsed, daemonPc, pendingAuth,
                   rand, reqs, tokenCalls, relayCalls, warnings, authn>>

\* main(), command stop: signals the process named by the PID file and
\* removes the file
Stop ==
    /\ LET status == isDaemonRunning(host)
       IN  host' = IF status.running
                   THEN [host EXCEPT !.sigterm = @ \cup {status.pid},
                                     !.pidFile = removePidFile]
                   ELSE [host EXCEPT !.pidFile = status.pidFile]
    /\ UNCHANGED <<command, config, jwt, proc, logFile, cookies, elapsed, daemonPc, pendingAuth,
                   rand, reqs, tokenCalls, relayCalls, warnings, authn>>

\* main(), command status: prints whether the daemon is running
Status ==
    /\ LET status == isDaemonRunning(host)
       IN  host' = [host EXCEPT !.status = IF status.running THEN "running" ELSE "not running",
                                !.pidFile = status.pidFile]
    /\ UNCHANGED <<command, config, jwt, proc, logFile, cookies, elapsed, daemonPc, pendingAuth,
                   rand, reqs, tokenCalls, relayCalls, warnings, authn>>

\* ------------------------------------------------------------ specification
Init ==
    /\ command \in Commands
    /\ config \in { c \in Configs : command = "daemon" => c.enableLogging }
    /\ daemonPc = IF command = "daemon" THEN "cli" ELSE "off"
    /\ authn = IF command = "oneshot" THEN [NoAuthn EXCEPT !.pc = "cli"] ELSE NoAuthn
    /\ pendingAuth = <<>>
    /\ rand = 0
    /\ reqs = <<>>
    /\ tokenCalls = {}
    /\ relayCalls = {}
    /\ warnings = 0
    /\ elapsed = FALSE
    /\ cookies \in IF config.backendUrl THEN BOOLEAN ELSE {FALSE}
    /\ logFile = {}
    /\ jwt = NoJwt
    /\ proc = NoProc
    /\ host = NoHost

Next ==
    \/ Main
    \/ StartDaemon
    \/ \E resp \in BackendResponses : StartupPushDone(resp)
    \/ \E ok \in BOOLEAN : Listen(ok)
    \/ \E q \in DaemonQueries : Health(q)
    \/ \E q \in DaemonQueries : InitiateBypass(q)
    \/ \E q \in DaemonQueries : Initiate(q)
    \/ SessionAges
    \/ \E q \in DaemonQueries : Callback(q)
    \/ \E q \in DaemonQueries : NotFound(q)
    \/ \E i \in DOMAIN reqs, resp \in BackendResponses : BypassRelayDone(i, resp)
    \/ \E i \in DOMAIN reqs, resp \in TokenEndpointResponses : ExchangeDone(i, resp)
    \/ \E i \in DOMAIN reqs, resp \in BackendResponses : RelayDone(i, resp)
    \/ Authenticate
    \/ \E ok \in BOOLEAN : OneShotListen(ok)
    \/ OneShotTimeout
    \/ \E q \in OneShotQueries : OneShotRequest(q)
    \/ \E resp \in TokenEndpointResponses : OneShotExchangeDone(resp)

Spec == Init /\ [][Next]_vars

\* --- the decoder applied to one token, outside any run of the CLI
\* no command runs
Idle ==
    /\ command = "none"
    /\ config = [tokens |-> [set |-> FALSE, accessToken |-> Null, idToken |-> Null],
                 backendUrl |-> FALSE, backendSecret |-> FALSE,
                 issuer |-> FALSE, clientId |-> FALSE, enableLogging |-> FALSE]
    /\ daemonPc = "off"
    /\ authn = NoAuthn
    /\ pendingAuth = <<>>
    /\ rand = 0
    /\ reqs = <<>>
    /\ tokenCalls = {}
    /\ relayCalls = {}
    /\ warnings = 0
    /\ elapsed = FALSE
    /\ cookies = FALSE
    /\ logFile = {}

InitDecode ==
    /\ Idle
    /\ jwt \in DecoderInputs
    /\ proc = NoProc
    /\ host = NoHost

NextDecode ==
    \/ DecodeJWT

SpecDecode == InitDecode /\ [][NextDecode]_vars

\* --- parseArgs applied to one set of configuration sources
InitParseArgs ==
    /\ Idle
    /\ jwt = NoJwt
    /\ proc \in ProcessInputs
    /\ host = NoHost

NextParseArgs ==
    \/ ParseArgs

SpecParseArgs == InitParseArgs /\ [][NextParseArgs]_vars

\* --- the commands of the CLI on one machine
InitLifecycle ==
    /\ Idle
    /\ jwt = NoJwt
    /\ proc = NoProc
    /\ host = NoHost

NextLifecycle ==
    \/ \E k \in Pids : Start(k)
    \/ \E k \in Pids : StartReport(k)
    \/ \E k \in Pids : InternalDaemon(k)
    \/ \E k \in Pids, ok \in BOOLEAN : DaemonListen(k, ok)
    \/ \E k \in Pids : DaemonSigterm(k)
    \/ Stop
    \/ Status

SpecLifecycle == InitLifecycle /\ [][NextLifecycle]_vars

\* --- the daemon serving any request line, with outbound calls that settle
NextResponses ==
    \/ Next
    \/ \E crash \in BOOLEAN : InvalidUrl(crash)

\* every outbound call of a suspended handler eventually completes or fails
OutboundCallsSettle ==
    \A i \in 1..MaxRequests :
        /\ WF_vars(\E resp \in TokenEndpointResponses : ExchangeDone(i, resp))
        /\ WF_vars(\E resp \in BackendResponses : RelayDone(i, resp))
        /\ WF_vars(\E resp \in BackendResponses : BypassRelayDone(i, resp))

SpecResponses == Init /\ [][NextResponses]_vars /\ OutboundCallsSettle

\* ------------------------------------------------------------------- claims
\* a callback: a request to / with a code and no error
IsCallbackRequest(r) == r.path = "/" /\ r.code # Null /\ r.error = Null

\* the initiations answered with a redirect before request i
BegunBefore(i) == { j \in 1..(i - 1) : reqs[j].resp.status = 302 }

\* the initiations whose redirect carried the state of request i
SessionsOf(i) ==
    { j \in DOMAIN reqs : reqs[j].resp.status = 302
                          /\ reqs[j].resp.location.state = reqs[i].state }

\* the state of the most recently begun session when request i arrived
ExpectedStateAt(i) ==
    IF command = "oneshot" THEN authn.state
    ELSE IF BegunBefore(i) = {} THEN Null
    ELSE reqs[CHOOSE j \in BegunBefore(i) : \A k \in BegunBefore(i) : k <= j]
           .resp.location.state

\* the token endpoint was called for request i
ExchangedFor(i) == \E c \in tokenCalls : c.req = i

\* the backend was called for request i
RelayedFor(i) == \E c \in relayCalls : c.req = i

\* the exchange of request i succeeded: 2xx with a token set
ExchangeSucceeded(i) == reqs[i].tokens.access_token # Null

\* both bypass tokens are configured
BypassConfigured ==
    config.tokens.set /\ config.tokens.accessToken # Null /\ config.tokens.idToken # Null

\* C1: a callback whose state differs from the state of the most recently
\* begun session, or that arrives when no session was ever begun, is answered
\* with 400 and no token exchange is issued for it (daemon and one-shot)
C1_MismatchRejected ==
    \A i \in DOMAIN reqs :
        (IsCallbackRequest(reqs[i])
         /\ (reqs[i].state # ExpectedStateAt(i)
             \/ (command = "daemon" /\ BegunBefore(i) = {})))
        => (reqs[i].resp.status = 400 /\ ~ExchangedFor(i))

\* C1 witness: a session is pending and a callback with a forged state was refused
C1_Witness ==
    \E i \in DOMAIN reqs :
        /\ command = "daemon" /\ BegunBefore(i) # {}
        /\ IsCallbackRequest(reqs[i]) /\ reqs[i].state = Forged
        /\ reqs[i].resp.status = 400
        /\ pendingAuth # <<>>

\* C2 (as claimed): for each session the daemon issues at most one token
\* exchange, i.e. no two exchanges are issued for callbacks with the same state
C2_AtMostOneExchange ==
    \A c1, c2 \in tokenCalls :
        (command = "daemon" /\ reqs[c1.req].state = reqs[c2.req].state) => c1 = c2

\* C3: once a callback has completed with a successful exchange, a later
\* callback with the same code and state is answered 400 and issues no exchange
C3_SingleUse ==
    [][(command = "daemon" /\ Len(reqs') = Len(reqs) + 1)
       => LET r == reqs'[Len(reqs')]
          IN  (IsCallbackRequest(r)
               /\ \E j \in DOMAIN reqs :
                     /\ IsCallbackRequest(reqs[j])
                     /\ reqs[j].pc = "done" /\ reqs[j].tokens # NoTokens
                     /\ reqs[j].state = r.state /\ reqs[j].code = r.code)
              => (r.resp.status = 400 /\ r.pc = "done" /\ tokenCalls' = tokenCalls)]_vars

\* C3 witness: a callback was delivered and the same callback, sent again, refused
C3_Witness ==
    \E j, k \in DOMAIN reqs :
        /\ command = "daemon" /\ j < k
        /\ IsCallbackRequest(reqs[j]) /\ IsCallbackRequest(reqs[k])
        /\ reqs[j].state = reqs[k].state /\ reqs[j].code = reqs[k].code
        /\ reqs[j].pc = "done" /\ reqs[j].resp.status = 200
        /\ reqs[j].tokens # NoTokens
        /\ reqs[k].resp.status = 400
        /\ Cardinality(tokenCalls) = 1

\* C4: with both bypass tokens configured no redirect to the provider is
\* issued, no session is begun and the token endpoint is never called
C4_BypassPrecedence ==
    BypassConfigured
    => /\ tokenCalls = {}
       /\ pendingAuth = <<>>
       /\ rand = 0
       /\ authn.state = Null /\ authn.codeVerifier = Null /\ authn.server = "none"
       /\ \A i \in DOMAIN reqs :
             reqs[i].resp.status # 302 /\ reqs[i].resp.location = NoLocation

\* C4 witness: a bypass daemon has answered initiations in both delivery
\* modes and a callback
C4_Witness ==
    /\ BypassConfigured /\ command = "daemon"
    /\ \E i, j, k \in DOMAIN reqs :
          /\ reqs[i].path = "/" /\ reqs[i].code = Null /\ reqs[i].mode = ReturnTokens
          /\ reqs[i].resp.status = 200
          /\ reqs[j].path = "/" /\ reqs[j].code = Null /\ reqs[j].mode = Null
          /\ reqs[j].resp.status = 200
          /\ IsCallbackRequest(reqs[k]) /\ reqs[k].resp.status = 400

\* C5 (as claimed): a callback of a session begun with mode=return-tokens
\* whose exchange succeeded is answered with the 200 page posting exactly the
\* exchanged tokens, and the backend is never called for it
C5_ScenarioA ==
    \A i \in DOMAIN reqs :
        (/\ command = "daemon" /\ IsCallbackRequest(reqs[i])
         /\ ExchangeSucceeded(i)
         /\ \E j \in SessionsOf(i) : reqs[j].mode = ReturnTokens)
        => /\ ~RelayedFor(i)
           /\ reqs[i].pc = "done"
              => /\ reqs[i].resp.status = 200
                 /\ reqs[i].resp.message = ClusterTokensMessage(reqs[i].tokens)

\* C6: every token exchange carries the verifier whose challenge was sent in
\* the redirect that carried the state its callback matched
C6_PkceBinding ==
    \A c \in tokenCalls :
        IF command = "daemon"
        THEN \E j \in SessionsOf(c.req) :
                reqs[j].resp.location.code_challenge = Sha256(c.code_verifier)
        ELSE c.code_verifier = authn.codeVerifier /\ reqs[c.req].state = authn.state

\* C6 witness: two sessions were begun and the callback of the second is
\* being exchanged
C6_Witness ==
    \E c \in tokenCalls :
        /\ command = "daemon"
        /\ Cardinality(BegunBefore(c.req)) = 2
        /\ reqs[c.req].pc = "exchange"

\* C7 (as claimed): a request to / with an error parameter, with or without a
\* code, is answered with the 200 error page; no exchange, session or redirect
C7_ScenarioC ==
    \A i \in DOMAIN reqs :
        (reqs[i].path = "/" /\ reqs[i].error # Null)
        => /\ reqs[i].resp.status = 200
           /\ reqs[i].resp.page = "Authentication Failed"
           /\ reqs[i].resp.location = NoLocation
           /\ ~ExchangedFor(i)

\* C8 (as claimed): a callback of a session begun in pushToBackend mode whose
\* exchange succeeded is answered with a 200 success page
C8_RelayKeepsStatus ==
    \A i \in DOMAIN reqs :
        (/\ command = "daemon" /\ IsCallbackRequest(reqs[i])
         /\ reqs[i].pc = "done" /\ ExchangeSucceeded(i)
         /\ \E j \in SessionsOf(i) : reqs[j].mode # ReturnTokens)
        => /\ reqs[i].resp.status = 200
           /\ reqs[i].resp.page = "Authentication Successful"

\* the handlers that took the legacy branch (pushed, or found no backend URL)
\* answer 200 with a success page whatever the backend answered
C8_LegacyBranchAnswers200 ==
    \A i \in DOMAIN reqs :
        (/\ command = "daemon" /\ IsCallbackRequest(reqs[i]) /\ reqs[i].pc = "done"
         /\ (RelayedFor(i) \/ reqs[i].resp.detail = "No backend URL configured"))
        => /\ reqs[i].resp.status = 200
           /\ reqs[i].resp.page = "Authentication Successful"

\* C9 (as claimed): the backend answers 200 {"sessionToken":"abc"} and the
\* page posts "abc" in the session-token field of its message
C9_SessionTokenPosted ==
    \A i \in DOMAIN reqs :
        (/\ IsCallbackRequest(reqs[i]) /\ reqs[i].pc = "done"
         /\ ExchangeSucceeded(i)
         /\ reqs[i].relay.net = "ok" /\ reqs[i].relay.status = 200
         /\ reqs[i].relay.json /\ reqs[i].relay.sessionToken = "abc")
        => reqs[i].resp.message.backstageToken = "abc"

\* C9 (amended): the backend answers 200 {"backstageToken":"abc"} and the
\* page posts a message whose field backstageToken is "abc"
C9_BackstageTokenPosted ==
    \A i \in DOMAIN reqs :
        (/\ IsCallbackRequest(reqs[i]) /\ reqs[i].pc = "done"
         /\ ExchangeSucceeded(i)
         /\ reqs[i].relay.net = "ok" /\ reqs[i].relay.status = 200
         /\ reqs[i].relay.json /\ reqs[i].relay.backstageToken = "abc")
        => /\ reqs[i].resp.status = 200
           /\ reqs[i].resp.message = AuthCompleteMessage("abc", FALSE)

\* C9 witness: a legacy-mode callback whose push was answered with the token
C9_Witness ==
    \E i \in DOMAIN reqs :
        /\ IsCallbackRequest(reqs[i]) /\ reqs[i].pc = "done"
        /\ \E j \in SessionsOf(i) : reqs[j].mode = Null
        /\ ExchangeSucceeded(i)
        /\ reqs[i].relay.status = 200 /\ reqs[i].relay.backstageToken = "abc"

\* C10: an initiation arriving while a session is pending is answered 302 and
\* replaces the session with one of a fresh state; from then on a callback
\* with a superseded state is answered 400 and a callback with the pending
\* session's state is accepted
C10_LastInitiationWins ==
    [][(command = "daemon" /\ ~BypassConfigured /\ Len(reqs') = Len(reqs) + 1)
       => LET r == reqs'[Len(reqs')]
          IN  /\ (r.path = "/" /\ r.code = Null)
                 => /\ r.resp.status = 302
                    /\ r.resp.location.state \notin IssuedStates
                    /\ pendingAuth' # <<>>
                    /\ pendingAuth'[1].state = r.resp.location.state
              /\ (IsCallbackRequest(r) /\ r.state \in IssuedStates
                  /\ r.state # ExpectedStateAt(Len(reqs) + 1))
                 => (r.resp.status = 400 /\ tokenCalls' = tokenCalls)
              /\ (IsCallbackRequest(r) /\ pendingAuth # <<>>
                  /\ r.state = ExpectedStateAt(Len(reqs) + 1))
                 => (r.pc = "exchange"
                     /\ tokenCalls' = tokenCalls \cup
                          {[req |-> Len(reqs) + 1, code |-> r.code,
                            code_verifier |-> pendingAuth[1].codeVerifier]})]_vars

\* C10 witness: a second initiation replaced the pending session and a
\* callback with the first session's state was then refused
C10_Witness ==
    \E i, j, k \in DOMAIN reqs :
        /\ i < j /\ j < k
        /\ reqs[i].resp.status = 302 /\ reqs[j].resp.status = 302
        /\ IsCallbackRequest(reqs[k])
        /\ reqs[k].state = reqs[i].resp.location.state
        /\ reqs[k].resp.status = 400
        /\ pendingAuth # <<>>
        /\ pendingAuth[1].state = reqs[j].resp.location.state

\* the initiations answered with a redirect after request i arrived
BegunAfter(i) == { j \in DOMAIN reqs : j > i /\ reqs[j].resp.status = 302 }

\* the exchange of callback i was rejected and the handler answered
ExchangeFailed(i) ==
    /\ IsCallbackRequest(reqs[i]) /\ reqs[i].pc = "done"
    /\ reqs[i].resp.status = 500 /\ reqs[i].tokens = NoTokens

\* C11 (as claimed): when the exchange of a callback fails and no initiation
\* arrived meanwhile, no session is pending afterwards; and a callback arriving
\* after a failed exchange with the same state, no initiation in between, is
\* answered 400 and issues no exchange
C11_FailedExchangeTerminal ==
    [][command = "daemon"
       => /\ \A i \in DOMAIN reqs :
                (/\ reqs[i].pc = "exchange" /\ reqs'[i].pc = "done"
                 /\ reqs'[i].tokens = NoTokens /\ BegunAfter(i) = {})
                => pendingAuth' = <<>>
          /\ (Len(reqs') = Len(reqs) + 1)
             => LET r == reqs'[Len(reqs')]
                IN  (IsCallbackRequest(r)
                     /\ \E j \in DOMAIN reqs :
                           /\ ExchangeFailed(j) /\ reqs[j].state = r.state
                           /\ BegunAfter(j) = {})
                    => (r.resp.status = 400 /\ tokenCalls' = tokenCalls)]_vars

\* C12 (as claimed): a daemon callback that arrives more than 3 minutes after
\* the pending session was stored is rejected and never exchanged
C12_SessionTimeout ==
    \A i \in DOMAIN reqs :
        (command = "daemon" /\ IsCallbackRequest(reqs[i]) /\ reqs[i].late)
        => (reqs[i].resp.status = 400 /\ ~ExchangedFor(i))

\* C12 (amended): the daemon enforces no session timeout: a callback carrying
\* the pending session's state is accepted and exchanged however late it
\* arrives, and the passage of time alone never ends a session
C12_NoDaemonTimeout ==
    [][command = "daemon"
       => /\ (elapsed' /\ ~elapsed) => pendingAuth' = pendingAuth
          /\ (Len(reqs') = Len(reqs) + 1)
             => LET r == reqs'[Len(reqs')]
                IN  (/\ IsCallbackRequest(r) /\ r.late
                     /\ pendingAuth # <<>> /\ r.state = pendingAuth[1].state)
                    => (/\ r.pc = "exchange"
                        /\ tokenCalls' = tokenCalls \cup
                             {[req |-> Len(reqs) + 1, code |-> r.code,
                               code_verifier |-> pendingAuth[1].codeVerifier]})]_vars

\* C12 witness: a callback that arrived after the 3 minutes was exchanged and
\* its tokens delivered
C12_Witness ==
    \E i \in DOMAIN reqs :
        /\ command = "daemon" /\ IsCallbackRequest(reqs[i]) /\ reqs[i].late
        /\ reqs[i].pc = "done" /\ ExchangeSucceeded(i)
        /\ reqs[i].resp.status = 200

\* C13 (as claimed): a callback refused while a session with another state is
\* pending and a callback refused while no session is pending are never
\* answered alike (no exchange was issued, so a session once begun is pending)
C13_DistinctRejections ==
    \A i, j \in DOMAIN reqs :
        (/\ command = "daemon" /\ tokenCalls = {}
         /\ IsCallbackRequest(reqs[i]) /\ BegunBefore(i) = {}
         /\ IsCallbackRequest(reqs[j]) /\ BegunBefore(j) # {}
         /\ reqs[j].state # ExpectedStateAt(j))
        => reqs[i].resp # reqs[j].resp

\* C14 (as claimed): a token response that is 2xx JSON without access_token is
\* an exchange failure: nothing is pushed for it, no success page is served
\* for it and authenticate() does not return it
C14_AccessTokenRequired ==
    /\ \A i \in DOMAIN reqs :
          (/\ IsCallbackRequest(reqs[i])
           /\ reqs[i].tokens # NoTokens /\ reqs[i].tokens.access_token = Null)
          => /\ ~RelayedFor(i)
             /\ reqs[i].pc = "done" => reqs[i].resp.page # "Authentication Successful"
    /\ (authn.pc = "returned" /\ ~BypassConfigured)
       => authn.tokens.access_token # Null

\* the failure mode of a token endpoint response, as the claim classifies it
FailureMode(resp) ==
    IF resp.net = "error" THEN "network"
    ELSE IF ~(resp.status >= 200 /\ resp.status < 300) THEN "status"
    ELSE IF resp.body = "not_json" THEN "malformed"
    ELSE "success"

\* C15 (as claimed): whenever an exchange is in flight, two answers of the
\* token endpoint of different failure modes settle it differently
C15_ThreeFailureModes ==
    \A i \in (DOMAIN reqs) \cup {0} :
        (IF i = 0 THEN authn.pc = "exchange" ELSE reqs[i].pc = "exchange")
        => \A r1, r2 \in TokenEndpointResponses :
              FailureMode(r1) # FailureMode(r2)
              => exchangeCodeForTokens(r1, i) # exchangeCodeForTokens(r2, i)

\* C16 (as claimed): with a backend secret configured, every POST to the
\* backend carries a forwarded Cookie header or the X-Auth-Secret header
C16_SecretOrCookie ==
    \A c \in relayCalls :
        config.backendSecret => (c.headers.Cookie \/ c.headers.XAuthSecret)

\* C17 (as claimed): the page a bypass initiation is answered with has the
\* status and the message to the opener (posted or not, type and fields) of
\* the page a completed OIDC flow serves for the same tokens, mode and relay
\* outcome
C17_BypassEqualsOidc ==
    \A i \in DOMAIN reqs :
        (/\ command = "daemon" /\ BypassConfigured
         /\ reqs[i].path = "/" /\ reqs[i].code = Null /\ reqs[i].pc = "done")
        => LET oidc == CallbackDelivery(reqs[i].mode = ReturnTokens, config.backendUrl,
                                        preConfiguredTokens, reqs[i].relay)
           IN  /\ reqs[i].resp.status = oidc.status
               /\ (reqs[i].resp.message = NoMessage) = (oidc.message = NoMessage)
               /\ reqs[i].resp.message = oidc.message

\* exactly one of the two bypass tokens is configured
PartialBypass ==
    config.tokens.set /\ ((config.tokens.accessToken = Null) # (config.tokens.idToken = Null))

\* the entry point has made its bypass lookup
LookedUp ==
    IF command = "daemon" THEN daemonPc \in {"startupPush", "binding", "listening", "failed"}
    ELSE authn.pc \in {"waiting", "exchange", "returned", "threw"}

\* C18: with exactly one bypass token configured the lookup yields no token
\* set and logs a warning; every initiation of the daemon is answered with a
\* redirect to the provider and begins a session, and authenticate() runs the
\* PKCE flow
C18_ScenarioE ==
    PartialBypass
    => /\ LookedUp => warnings = 1
       /\ \A i \in DOMAIN reqs :
             (command = "daemon" /\ reqs[i].path = "/" /\ reqs[i].code = Null)
             => /\ reqs[i].resp.status = 302
                /\ reqs[i].resp.location.endpoint = "authorize"
                /\ reqs[i].resp.location.state = Rand(2 * Cardinality(BegunBefore(i)) + 2)
                /\ reqs[i].resp.location.code_challenge
                     = Sha256(Rand(2 * Cardinality(BegunBefore(i)) + 1))
                /\ pendingAuth # <<>> \/ tokenCalls # {}
       /\ (command = "oneshot" /\ LookedUp)
          => /\ authn.codeVerifier = Rand(1) /\ authn.state = Rand(2)
             /\ authn.pc = "returned" => tokenCalls # {}

\* C18 witness: the daemon, configured with one bypass token, has warned and
\* answered an initiation with a redirect, and its session is pending
C18_Witness ==
    /\ PartialBypass /\ command = "daemon" /\ warnings = 1
    /\ pendingAuth # <<>>
    /\ \E i \in DOMAIN reqs :
          /\ reqs[i].path = "/" /\ reqs[i].code = Null /\ reqs[i].resp.status = 302
          /\ reqs[i].resp.location.state = pendingAuth[1].state

\* the process has left main()'s validation
Validated ==
    IF command = "daemon" THEN daemonPc # "cli" ELSE authn.pc # "cli"

\* the process exited in main()'s validation
Exited ==
    IF command = "daemon" THEN daemonPc = "exited" ELSE authn.pc = "exited"

\* C19 (as claimed): with exactly one bypass token configured the process
\* exits at startup and never starts its HTTP server
C19_PartialBypassFatal ==
    (PartialBypass /\ Validated)
    => (Exited /\ daemonPc # "listening" /\ authn.server = "none")

\* C19 (amended): an incomplete bypass configuration is not fatal in itself:
\* the process exits at startup exactly when issuer or client id is missing
\* and the bypass tokens are not both configured; with one bypass token and
\* both issuer and client id it goes on to start the server
C19_PartialBypassNotFatal ==
    /\ Validated
       => (Exited <=> (~BypassConfigured /\ ~(config.issuer /\ config.clientId)))
    /\ Exited => (reqs = <<>> /\ authn.server = "none" /\ warnings = 0)
    /\ (PartialBypass /\ config.issuer /\ config.clientId) => ~Exited

\* C19 witness: the daemon, configured with one bypass token, an issuer and a
\* client id, is listening and has answered a request
C19_Witness ==
    /\ PartialBypass /\ config.issuer /\ config.clientId
    /\ command = "daemon" /\ daemonPc = "listening" /\ reqs # <<>>

\* C20: when the timer fires on an open one-shot server that no request to
\* the callback path has reached, authenticate() throws the timeout error and
\* the server is closed; that error is reported by the timer alone, its delay
\* is 180 seconds, and no token exchange is ever issued once it is reported
C20_OneShotTimeout ==
    [][command = "oneshot"
       => /\ (/\ authn.timer = "armed" /\ authn'.timer = "fired"
              /\ authn.server = "open"
              /\ \A i \in DOMAIN reqs : reqs[i].path # "/")
             => /\ authn'.pc = "threw"
                /\ authn'.error = "Authentication timeout (3 minutes)"
                /\ authn'.error \notin {"State mismatch", "No authorization code received",
                                        "Auth0 Error", "Port is already in use"}
                /\ authn'.server = "closed"
                /\ AuthenticationTimeout = 180 * 1000
          /\ authn'.error = "Authentication timeout (3 minutes)"
             => /\ authn'.timer = "fired" /\ authn'.pc = "threw"
                /\ authn'.server = "closed"
                /\ tokenCalls' = {}]_vars

\* C20 witness: only a request to another path reached the server, the timer
\* fired and authenticate() threw the timeout error
C20_Witness ==
    /\ command = "oneshot" /\ authn.pc = "threw"
    /\ authn.error = "Authentication timeout (3 minutes)"
    /\ authn.server = "closed" /\ tokenCalls = {}
    /\ reqs # <<>> /\ \A i \in DOMAIN reqs : reqs[i].resp.status = 404

\* C21: every initiation of the OIDC flow is answered with a 302 whose state
\* is the state of the session it stores and whose code_challenge is the
\* SHA-256 of the stored verifier, with method S256; the stored verifier is
\* no parameter of the redirect
C21_RedirectMatchesSession ==
    [][(command = "daemon" /\ ~BypassConfigured /\ Len(reqs') = Len(reqs) + 1)
       => LET r == reqs'[Len(reqs')]
              location == r.resp.location
          IN  (r.path = "/" /\ r.code = Null)
              => /\ r.resp.status = 302
                 /\ location.endpoint = "authorize"
                 /\ pendingAuth' # <<>>
                 /\ location.state = pendingAuth'[1].state
                 /\ location.code_challenge = Sha256(pendingAuth'[1].codeVerifier)
                 /\ location.code_challenge_method = "S256"
                 /\ pendingAuth'[1].codeVerifier
                      \notin {location.state, location.code_challenge}]_vars

\* C21 witness: two initiations were answered and the pending session is the
\* one of the second redirect
C21_Witness ==
    \E i, j \in DOMAIN reqs :
        /\ command = "daemon" /\ i < j
        /\ reqs[i].resp.status = 302 /\ reqs[j].resp.status = 302
        /\ pendingAuth # <<>>
        /\ reqs[j].resp.location.state = pendingAuth[1].state
        /\ reqs[j].resp.location.code_challenge = Sha256(pendingAuth[1].codeVerifier)
        /\ reqs[i].resp.location.code_challenge # reqs[j].resp.location.code_challenge

\* the number of '.'-separated segments of a string
SegmentCount(token) == Cardinality({ i \in DOMAIN token : token[i] = 46 }) + 1

\* what the middle segment of a three-segment token decodes to
MiddleSegmentJson(token) ==
    LET first == CHOOSE i \in DOMAIN token : token[i] = 46 /\ \A k \in 1..(i - 1) : token[k] # 46
        second == CHOOSE i \in DOMAIN token : i > first /\ token[i] = 46
        segment == SubSeq(token, first + 1, second - 1)
    IN  JSONParse(toStringUtf8(BufferFromBase64(replace(replace(segment, 45, 43), 95, 47))))

\* C22: the decoder returns for every input and classifies it by its number of
\* '.'-separated segments: five segments give type jwe (encrypted) without
\* claims, three segments give type jwt (signed) with the JSON-parsed middle
\* segment, any other count gives type unknown without claims; three segments
\* whose middle segment does not decode to JSON, and an input that cannot be
\* split, give type error without claims.
C22_DecoderClassifies ==
    jwt.pc = "returned"
    => LET r == jwt.result
       IN  /\ r.type \in {"jwe", "jwt", "unknown", "error"}
           /\ jwt.token = NotAString => r = [type |-> "error", payload |-> Null]
           /\ jwt.token # NotAString
              => LET n == SegmentCount(jwt.token)
                 IN  /\ n = 5 => r = [type |-> "jwe", payload |-> Null]
                     /\ n \notin {3, 5} => r = [type |-> "unknown", payload |-> Null]
                     /\ n = 3
                        => LET json == MiddleSegmentJson(jwt.token)
                           IN  IF json.ok
                               THEN r = [type |-> "jwt", payload |-> json.value]
                               ELSE r = [type |-> "error", payload |-> Null]

\* a three-segment token whose middle segment is a truncated encoding was
\* decoded to type error
C22_Witness ==
    /\ jwt.pc = "returned"
    /\ jwt.token # NotAString
    /\ SegmentCount(jwt.token) = 3
    /\ Len(jwt.token) > 8
    /\ ~MiddleSegmentJson(jwt.token).ok
    /\ jwt.result.type = "error"

\* C23: round trip: the token base64url(header).base64url(JSON(P)).base64url(signature)
\* decodes to type jwt (signed) with claims equal to P, for every header and
\* signature.
C23_RoundTrip ==
    (jwt.pc = "returned" /\ jwt.built)
    => jwt.result = [type |-> "jwt", payload |-> jwt.claims]

\* a token with a two-member payload, a header and a binary signature whose
\* encoding uses the URL-safe characters was decoded to its payload
C23_Witness ==
    /\ jwt.pc = "returned"
    /\ jwt.built
    /\ Len(jwt.claims[2]) = 2
    /\ \E i \in DOMAIN jwt.token : jwt.token[i] = 95
    /\ jwt.token[1] # 46
    /\ jwt.token[Len(jwt.token)] # 46
    /\ jwt.result.type = "jwt"
    /\ jwt.result.payload = jwt.claims

\* C24: a request to /health is answered 200 with status running and
\* Access-Control-Allow-Origin: * whatever the server is doing, and leaves the
\* pending session and the outbound calls as they are.
C24_HealthAlways ==
    [][(command = "daemon" /\ Len(reqs') = Len(reqs) + 1
        /\ reqs'[Len(reqs')].path = "/health")
       => LET r == reqs'[Len(reqs')]
          IN  /\ r.pc = "done"
              /\ r.resp.status = 200
              /\ r.resp.detail = "running"
              /\ r.resp.allowOrigin = "*"
              /\ pendingAuth' = pendingAuth
              /\ tokenCalls' = tokenCalls
              /\ relayCalls' = relayCalls
              /\ \A i \in DOMAIN reqs : reqs'[i] = reqs[i]]_vars

\* the health check was answered while a session was pending and an earlier
\* callback was suspended in its token exchange
C24_Witness ==
    \E i, j \in DOMAIN reqs :
        /\ i < j
        /\ reqs[i].pc = "exchange"
        /\ pendingAuth # <<>>
        /\ reqs[j].path = "/health"
        /\ reqs[j].resp.status = 200
        /\ reqs[j].resp.allowOrigin = "*"

\* C25: no operation of the library writes a complete access or ID token to
\* the log file.
C25_NoTokenOnDisk == \A line \in logFile : ~line.complete

\* C26 (as claimed): a session begun while callback i was suspended in its
\* token exchange or relay, and pending when callback i resumes, is still
\* pending after that step
C26_FreshSessionSurvives ==
    [][\A i \in DOMAIN reqs :
          (/\ command = "daemon"
           /\ reqs[i].pc \in {"exchange", "relay"} /\ reqs'[i].pc # reqs[i].pc
           /\ pendingAuth # <<>>
           /\ \E j \in BegunAfter(i) :
                 reqs[j].resp.location.state = pendingAuth[1].state)
          => pendingAuth' = pendingAuth]_vars

\* callback i went down the postMessage path: its page posts the token set
PostedToOpener(i) ==
    reqs[i].pc = "done" /\ reqs[i].resp.message = ClusterTokensMessage(reqs[i].tokens)

\* callback i went down the push path: the relay was called, or skipped for
\* lack of a backend URL
PushedToBackend(i) ==
    \/ RelayedFor(i)
    \/ reqs[i].pc = "done" /\ reqs[i].resp.detail = "No backend URL configured"

\* C27 (as claimed): a callback whose exchange succeeded takes the delivery
\* path of the mode requested by the initiation whose state it matched:
\* postMessage of the tokens for mode=return-tokens, the push otherwise
C27_ModeFixedAtCreation ==
    \A i \in DOMAIN reqs :
        (/\ command = "daemon" /\ IsCallbackRequest(reqs[i])
         /\ ExchangeSucceeded(i)
         /\ PostedToOpener(i) \/ PushedToBackend(i))
        => \A j \in SessionsOf(i) :
              IF reqs[j].mode = ReturnTokens
              THEN PostedToOpener(i) /\ ~PushedToBackend(i)
              ELSE PushedToBackend(i) /\ ~PostedToOpener(i)

\* C28 (as claimed): every answer to a request to / with a code has status
\* 200 or 400
C28_CallbackStatus200Or400 ==
    \A i \in DOMAIN reqs :
        (command = "daemon" /\ reqs[i].path = "/" /\ reqs[i].code # Null
         /\ reqs[i].pc = "done")
        => reqs[i].resp.status \in {200, 400}

\* C28: every answer to a request to / with a code has status 200, 400 or
\* 500: 400 exactly for a callback rejected on arrival (no exchange issued, no
\* provider error), 500 exactly for the "Token Exchange Failed" page, which is
\* only sent after an exchange was issued.
C28_CallbackStatus ==
    \A i \in DOMAIN reqs :
        (command = "daemon" /\ reqs[i].path = "/" /\ reqs[i].code # Null
         /\ reqs[i].pc = "done")
        => LET status == reqs[i].resp.status
           IN  /\ status \in {200, 400, 500}
               /\ status = 400 <=> (reqs[i].error = Null /\ ~ExchangedFor(i))
               /\ status = 500 <=> reqs[i].resp.page = "Token Exchange Failed"
               /\ status = 500 => ExchangedFor(i)

\* a callback matched the pending session, its exchange failed and it was
\* answered 500
C28_Witness ==
    \E i \in DOMAIN reqs :
        /\ command = "daemon" /\ IsCallbackRequest(reqs[i])
        /\ ExchangeFailed(i)
        /\ reqs[i].resp.page = "Token Exchange Failed"
        /\ reqs[i].resp.detail # "TypeError"

\* the first of the given values that is present, Null when none is
FirstPresent(values) ==
    IF \E i \in DOMAIN values : values[i] # Null
    THEN values[CHOOSE i \in DOMAIN values :
                    values[i] # Null /\ \A j \in 1..(i - 1) : values[j] = Null]
    ELSE Null

\* C29 (as claimed): for issuer, client id and organization id the effective
\* value is the command-line argument when given, otherwise the environment
\* variable when set, otherwise the config.yaml value, otherwise nothing
C29_ConfigPriority ==
    proc.pc = "returned"
    => \A k \in Settings :
          proc.config[k] = FirstPresent(<<proc.argv[k], proc.env[k], proc.fileConfig[k]>>)

\* the pushes of the daemon's startup, made before any request exists
StartupPushes(calls) == { c \in calls : c.req = 0 }

\* C30: in bypass mode with a backend URL the daemon pushes the configured
\* token set to the backend once, during startup and before server.listen is
\* called; when that push settles, with any outcome (2xx, non-2xx, unparseable
\* body, network failure), the daemon goes on to server.listen.
C30_StartupPushThenListen ==
    [][(command = "daemon" /\ BypassConfigured /\ config.backendUrl)
       => /\ daemonPc' \in {"startupPush", "binding", "listening", "failed"}
             => StartupPushes(relayCalls') = {BackendPost(0, preConfiguredTokens, FALSE)}
          /\ daemonPc # "start" => StartupPushes(relayCalls') = StartupPushes(relayCalls)
          /\ daemonPc' = "binding" => daemonPc = "startupPush"
          /\ daemonPc = "startupPush"
             => /\ reqs = <<>>
                /\ daemonPc' # daemonPc => daemonPc' = "binding"
                /\ \A resp \in BackendResponses : ENABLED StartupPushDone(resp)]_vars

\* the daemon listens and serves a request after its startup push was made
C30_Witness ==
    /\ command = "daemon" /\ BypassConfigured /\ config.backendUrl
    /\ daemonPc = "listening"
    /\ StartupPushes(relayCalls) = {BackendPost(0, preConfiguredTokens, FALSE)}
    /\ Len(reqs) > 0

C32_SuccessNeverReportedFailed ==
    \A i \in DOMAIN reqs :
        (/\ command = "daemon" /\ IsCallbackRequest(reqs[i])
         /\ reqs[i].pc = "done" /\ ExchangeSucceeded(i))
        => /\ reqs[i].resp.status # 500
           /\ reqs[i].resp.page # "Token Exchange Failed"

\* the callbacks answered without an exchange: rejected with 400, or shown
\* the provider's error
TurnedAway(r) ==
    /\ r.path = "/" /\ r.code # Null /\ r.pc = "done"
    /\ r.resp.status = 400 \/ r.resp.page = "Authentication Failed"

\* C33: a callback rejected with 400 or answered with the provider-error page
\* leaves the pending session and the outbound calls unchanged, and a
\* callback that arrives after such a request with the state of the pending
\* session is accepted and exchanged with that session's verifier.
C33_RejectionKeepsSession ==
    [][(command = "daemon" /\ Len(reqs') = Len(reqs) + 1)
       => LET r == reqs'[Len(reqs')]
          IN  /\ TurnedAway(r)
                 => /\ pendingAuth' = pendingAuth
                    /\ tokenCalls' = tokenCalls
                    /\ relayCalls' = relayCalls
              /\ (/\ IsCallbackRequest(r)
                  /\ pendingAuth # <<>> /\ r.state = pendingAuth[1].state
                  /\ \E k \in DOMAIN reqs :
                        /\ TurnedAway(reqs[k])
                        /\ \E j \in BegunBefore(k) :
                              reqs[j].resp.location.state = pendingAuth[1].state)
                 => /\ r.pc = "exchange"
                    /\ [req |-> Len(reqs'), code |-> r.code,
                        code_verifier |-> pendingAuth[1].codeVerifier] \in tokenCalls'
                    /\ \E j \in DOMAIN reqs :
                          /\ reqs[j].resp.status = 302
                          /\ reqs[j].resp.location.state = r.state
                          /\ reqs[j].resp.location.code_challenge
                               = Sha256(pendingAuth[1].codeVerifier)]_vars

\* after a session was begun, a callback with a forged state was rejected
\* with 400, and the callback with the session's state was then exchanged
C33_Witness ==
    \E j, k, i \in DOMAIN reqs :
        /\ command = "daemon" /\ j < k /\ k < i
        /\ reqs[j].resp.status = 302
        /\ IsCallbackRequest(reqs[k]) /\ reqs[k].state = Forged
        /\ reqs[k].resp.status = 400
        /\ IsCallbackRequest(reqs[i])
        /\ reqs[i].state = reqs[j].resp.location.state
        /\ ExchangedFor(i)

\* C34: in the one-shot flow the first request to the callback path that finds
\* the attempt unsettled settles it and closes the server: a provider error,
\* a missing code or a mismatching state rejects it without an exchange, a
\* valid callback resolves it and issues the exchange; once settled, no later
\* request and no firing of the timer changes the outcome: a rejected attempt
\* keeps its error and never exchanges, a resolved attempt exchanges once.
C34_OneShotSettlesOnce ==
    [][command = "oneshot"
       => /\ authn.promise = "rejected"
             => /\ authn'.promise = "rejected" /\ authn'.error = authn.error
                /\ authn'.pc = "threw"
                /\ tokenCalls' = tokenCalls
          /\ authn.promise = "resolved"
             => /\ authn'.promise = "resolved"
                /\ authn'.pc \in {"exchange", "returned", "threw"}
                /\ tokenCalls' = tokenCalls
          /\ (authn.promise = "pending" /\ Len(reqs') = Len(reqs) + 1
              /\ reqs'[Len(reqs')].path = "/")
             => LET r == reqs'[Len(reqs')]
                IN  /\ authn'.server = "closed"
                    /\ IF r.error # Null \/ r.code = Null \/ r.state # authn.state
                       THEN /\ authn'.promise = "rejected" /\ authn'.pc = "threw"
                            /\ tokenCalls' = tokenCalls
                       ELSE /\ authn'.promise = "resolved" /\ authn'.pc = "exchange"
                            /\ tokenCalls' = tokenCalls \cup
                                 {[req |-> Len(reqs'), code |-> r.code,
                                   code_verifier |-> authn.codeVerifier]}]_vars

\* a callback with a mismatching state rejected the attempt; a valid callback
\* reached the closed server afterwards and the timer fired, and the attempt
\* is still rejected for the state mismatch, with no exchange issued
C34_Witness ==
    \E k, i \in DOMAIN reqs :
        /\ command = "oneshot" /\ k < i
        /\ reqs[k].path = "/" /\ reqs[k].code = Code1 /\ reqs[k].state = Forged
        /\ reqs[k].resp.status = 400
        /\ reqs[i].path = "/" /\ reqs[i].code = Code1 /\ reqs[i].error = Null
        /\ reqs[i].state = authn.state
        /\ authn.timer = "fired"
        /\ authn.promise = "rejected" /\ authn.error = "State mismatch"
        /\ authn.pc = "threw"
        /\ tokenCalls = {}

\* the page of callback i posts the completion message, with success: true
PostsCompletion(i) ==
    /\ reqs[i].resp.message.type = "backstage-auth-complete"
    /\ reqs[i].resp.message.success

\* the relay for callback i returned 2xx
RelayReturned2xx(i) == RelayedFor(i) /\ sendTokensToBackend(reqs[i].relay)

\* C35 (as claimed): a callback of a session begun in pushToBackend mode that
\* is answered with the 200 success page posts the completion message if
\* and only if a backend URL is configured and the relay returned 2xx; when
\* the relay failed or no backend is configured the page posts no message.
C35_CompletionIffRelayed ==
    \A i \in DOMAIN reqs :
        (/\ command = "daemon" /\ IsCallbackRequest(reqs[i])
         /\ reqs[i].pc = "done"
         /\ reqs[i].resp.status = 200
         /\ reqs[i].resp.page = "Authentication Successful"
         /\ \E j \in SessionsOf(i) : reqs[j].mode # ReturnTokens)
        => /\ PostsCompletion(i) <=> (config.backendUrl /\ RelayReturned2xx(i))
           /\ (~config.backendUrl \/ (RelayedFor(i) /\ ~RelayReturned2xx(i)))
              => reqs[i].resp.message = NoMessage

\* the handlers that took the legacy branch post the completion message
\* exactly when the relay returned 2xx, and no message otherwise
C35_LegacyBranchCompletion ==
    \A i \in DOMAIN reqs :
        (/\ command = "daemon" /\ IsCallbackRequest(reqs[i]) /\ reqs[i].pc = "done"
         /\ PushedToBackend(i))
        => /\ PostsCompletion(i) <=> (config.backendUrl /\ RelayReturned2xx(i))
           /\ ~PostsCompletion(i) => reqs[i].resp.message = NoMessage

\* C36 (as claimed): whenever a daemon process is listening on the port, and
\* no stop command has signalled it, the PID file exists and holds its PID
C36_ListeningHasPidFile ==
    \A k \in Pids :
        (host.daemon[k] = "listening" /\ k \notin host.sigterm) => host.pidFile = k

\* C37 (as claimed): every request the daemon accepts is eventually answered,
\* given that every outbound call settles
C37_EveryRequestAnswered ==
    \A i \in 1..MaxRequests :
        (command = "daemon" /\ i \in DOMAIN reqs)
            ~> (i \in DOMAIN reqs /\ reqs[i].resp # NoResponse)

\* C37, the requests whose target parses: each is eventually answered, given
\* that every outbound call settles and the process is not terminated
C37_ParsedRequestAnswered ==
    \A i \in 1..MaxRequests :
        (command = "daemon" /\ i \in DOMAIN reqs /\ reqs[i].path # NoUrl.path)
            ~> (i \in DOMAIN reqs /\ (reqs[i].resp # NoResponse \/ daemonPc = "crashed"))

\* C37, second half: a response once written is never replaced, and a handler
\* that has answered is never resumed
C37_NoSecondResponse ==
    [][\A i \in DOMAIN reqs :
          reqs[i].resp # NoResponse
              => (i \in DOMAIN reqs' /\ reqs'[i] = reqs[i] /\ reqs[i].pc = "done")]_vars

====
